---- MODULE Spec2Model ----
(***************************************************************************)
(* Model of scan_test_action: TestOrchestrator.run_tests fanning out one   *)
(* dispatch+wait task per scanner over a PipelineProvider, and the shared  *)
(* PipelineProvider.wait_for_completion polling loop.                      *)
(*                                                                         *)
(* Tasks are asyncio coroutines on one event loop: the code between two    *)
(* awaits that really suspend (HTTP request, sleep) runs atomically, so    *)
(* each action below is one such stretch of code.                          *)
(***************************************************************************)
EXTENDS Integers, Sequences, FiniteSets, TLC

\* ------------------------------------------------------------------------
\* Bounds of the model
\* ------------------------------------------------------------------------
MaxScanners == 2
MaxTicks == 1
\* Provider calls in one run, pages of one run listing, tests of a definition.
MaxCalls == 2
MaxPages == 2
MaxTests == 2
\* Runs on a page of the listing that is not full.
ShortPage == 3
\* Test results in one report of the command line.
MaxResults == 4
\* Poll intervals the clock may run past the timeout of a wait.
MaxOverrun == 2

\* ------------------------------------------------------------------------
\* Program constants
\* ------------------------------------------------------------------------
DefaultTimeout == 1800
DefaultPollInterval == 30
\* HTTP status codes the providers test for, and the run listing's page size.
OK == 200
Created == 201
NoContent == 204
PerPage == 100

\* ------------------------------------------------------------------------
\* Values
\* ------------------------------------------------------------------------
\* Optional values: Python None is the empty tuple, a present value x is <<x>>.
None == <<>>
Some(x) == <<x>>

ScannerIdPool == <<"org/scanner-a", "org/scanner-b", "org/scanner-c", "org/scanner-d">>
Scanners == {ScannerIdPool[i] : i \in 1..MaxScanners}

\* Opaque dispatch states: the provider hands each dispatch a state of its own
\* (a run id, a pipeline id, a correlation token).
IssuableStates(s) == {<<"run-of", s>>}

\* models/result.py TestResult(status, duration, message=None, run_url=None)
TestResult(status, duration, message, run_url) ==
    [status |-> status, duration |-> duration, message |-> message, run_url |-> run_url]

\* orchestrator.py ScannerResult(scanner_id, results)
ScannerResult(scanner_id, results) ==
    [scanner_id |-> scanner_id, results |-> results]

\* Result sequences a provider's poll_status may report on a terminal state
\* (the empty list is a result too: it is not None).
PollResultValues ==
    { <<>>,
      <<TestResult("success", 10, None, Some("https://example.com"))>> }

\* What poll_status may return: None while still running, or results.
PollReturnValues == {None} \cup {Some(r) : r \in PollResultValues}

\* Exceptions are a class plus the text str() gives.
Exc(cls, msg) == [cls |-> cls, msg |-> msg]

\* Classes deriving from Exception (as opposed to bare BaseException).
ExceptionClasses == {"RuntimeError", "TimeoutError"}

DispatchExceptions == { Exc("RuntimeError", <<"Dispatch failed">>) }
PollExceptions == { Exc("RuntimeError", <<"API Error">>) }

\* str(exception)
Str(e) == e.msg

\* Variant: the check only recognises RuntimeError.
IsException_onlyRuntimeError(e) == e.cls = "RuntimeError"

\* isinstance(result, Exception)
IsException(e) == e.cls \in ExceptionClasses

Range(seq) == {seq[i] : i \in 1..Len(seq)}

\* Ordered mappings scanner id -> definition: the key order of the dict.
Mappings ==
    {m \in UNION {[1..n -> Scanners] : n \in 0..MaxScanners} :
        \A i, j \in 1..Len(m) : i # j => m[i] # m[j]}

\* ------------------------------------------------------------------------
\* State
\* ------------------------------------------------------------------------
VARIABLES
    test_definitions,  \* run_tests argument: scanner ids in mapping order
    timeout,           \* wait_for_completion argument
    poll_interval,     \* wait_for_completion argument
    rt_pc,             \* position of run_tests: "start", "gather", "returned"
    final_results,     \* value returned by run_tests
    pc,                \* per scanner: position of its _run_scanner_tests task
    dispatch_state,    \* per scanner: local dispatch_state of the task
    deadline,          \* per scanner: local deadline of wait_for_completion
    wake,              \* per scanner: loop time at which its sleep ends
    outcome,           \* per scanner: what the task returned or raised
    now,               \* event loop clock, seconds
    ticks,             \* number of clock advances so far
    dispatch_calls,    \* per scanner: dispatch_scanner_tests calls made
    poll_calls,        \* per scanner: poll_status calls made
    dispatches_in_flight, \* per scanner: dispatch calls issued and not yet returned
    polls_in_flight,   \* per scanner: poll calls issued and not yet returned
    none_polls,        \* per scanner: polls that returned the still-running sentinel
    issued_state,      \* per scanner: state the provider returned from dispatch
    poll_args,         \* per scanner: set of states passed to poll_status
    last_poll,         \* per scanner: what its latest poll_status returned
    sleeps,            \* per scanner: sleeps started by its wait loop
    wait_start,        \* per scanner: loop time at which its running wait loop began
    first_ended        \* the scanner whose task ended first, if any has

\* One provider instance seen at its HTTP boundary.
VARIABLES
    p_provider,        \* which provider implementation this is
    p_mode,            \* GitHubActionsConfig.dispatch_id_mode
    p_definition,      \* the TestDefinition handed to dispatch_scanner_tests
    p_pc,              \* "idle", "dispatching" (POST awaited), "polling" (GET awaited)
    p_sent,            \* HTTP requests sent by the call in progress or just ended
    p_response,        \* the latest HTTP response received, if any
    p_states,          \* dispatch states returned so far, in call order
    p_pending,         \* dispatch_id and dispatch_time of the running GitHub dispatch
    p_polled,          \* the dispatch state handed to the running poll_status
    p_page,            \* find_workflow_run's page counter
    p_result,          \* what the latest finished call returned or raised
    p_found,           \* what find_workflow_run returned in the latest GitHub poll
    p_pages,           \* run pages received by the running or latest GitHub poll
    p_uuids,           \* number of uuid4 values drawn so far
    p_calls,           \* provider calls started so far
    p_utc              \* wall clock, advanced at every provider call

\* One invocation of the command line's run().
VARIABLES
    c_pc,              \* "idle", "start", "detecting", "loading", "entering", "running", "returned", "raised"
    c_changed,         \* changed_scanners, as get_scanners_to_test returned it
    c_loaded,          \* scanner ids load_test_definitions has gone through
    c_definitions,     \* test_definitions: the scanner ids that loaded, in dict order
    c_scanner_results, \* scanner_results, as run_tests returned it
    c_printed,         \* the documents printed to standard output, in order
    c_exit,            \* the exit code run returned, if it has
    c_raised,          \* the exception that left run, if one has
    c_failed,          \* the latest exception a call made by run or load_test_definitions raised, if any
    c_session,         \* the provider's ClientSession: "none", "open", "closed"
    c_task,            \* per scanner, its task under run_tests: "pending", "dispatching", "polling", "completed", "failed", "cancelled"
    c_requests_on      \* the session states on which a request was issued

\* One GitHub Actions provider and its backend under concurrent scanner tasks.
VARIABLES
    g_pc,              \* per scanner: "idle", "dispatching", "dispatched", "polling", "done", "failed"
    g_state,           \* per scanner: the dispatch state its dispatch prepared, if any
    g_runs,            \* the workflow runs of the backend, in creation order
    g_created_by,      \* per run: the scanner whose dispatch created it
    g_matched          \* per scanner: the run its latest find_workflow_run returned, if any

orchVars == <<test_definitions, timeout, poll_interval, rt_pc, final_results, pc,
          dispatch_state, deadline, wake, outcome, now, ticks, dispatch_calls,
          poll_calls, dispatches_in_flight, polls_in_flight, none_polls,
          issued_state, poll_args, last_poll,
          sleeps, wait_start, first_ended>>

provVars == <<p_provider, p_mode, p_definition, p_pc, p_sent, p_response,
              p_states, p_pending, p_polled, p_page, p_result, p_found, p_pages,
              p_uuids, p_calls, p_utc>>

cliVars == <<c_pc, c_changed, c_loaded, c_definitions, c_scanner_results,
             c_printed, c_exit, c_raised, c_failed, c_session, c_task,
             c_requests_on>>

ghVars == <<g_pc, g_state, g_runs, g_created_by, g_matched>>

vars == <<orchVars, provVars, cliVars, ghVars>>

Terminal == {"Completed", "TimedOut", "DispatchFailed", "PollFailed"}
Failed == {"TimedOut", "DispatchFailed", "PollFailed"}

InitTasks ==
    /\ rt_pc = "start"
    /\ final_results = <<>>
    /\ pc = [s \in Scanners |-> "NotDispatched"]
    /\ dispatch_state = [s \in Scanners |-> None]
    /\ deadline = [s \in Scanners |-> 0]
    /\ wake = [s \in Scanners |-> 0]
    /\ outcome = [s \in Scanners |-> None]
    /\ now = 0
    /\ ticks = 0
    /\ dispatch_calls = [s \in Scanners |-> 0]
    /\ poll_calls = [s \in Scanners |-> 0]
    /\ dispatches_in_flight = [s \in Scanners |-> 0]
    /\ polls_in_flight = [s \in Scanners |-> 0]
    /\ none_polls = [s \in Scanners |-> 0]
    /\ issued_state = [s \in Scanners |-> None]
    /\ poll_args = [s \in Scanners |-> {}]
    /\ last_poll = [s \in Scanners |-> None]
    /\ sleeps = [s \in Scanners |-> 0]
    /\ wait_start = [s \in Scanners |-> 0]
    /\ first_ended = None

\* The provider before any call, with no call in progress.
InitProviderCalls ==
    /\ p_pc = "idle"
    /\ p_sent = <<>>
    /\ p_response = None
    /\ p_states = <<>>
    /\ p_pending = None
    /\ p_polled = None
    /\ p_page = 0
    /\ p_result = None
    /\ p_found = None
    /\ p_pages = <<>>
    /\ p_uuids = 0
    /\ p_calls = 0
    /\ p_utc = 0

\* No invocation of run() under way.
InitCliIdle ==
    /\ c_pc = "idle"
    /\ c_changed = <<>>
    /\ c_loaded = 0
    /\ c_definitions = <<>>
    /\ c_scanner_results = <<>>
    /\ c_printed = <<>>
    /\ c_exit = None
    /\ c_raised = None
    /\ c_failed = None
    /\ c_session = "none"
    /\ c_task = [s \in Scanners |-> "pending"]
    /\ c_requests_on = {}

\* No scanner task on the GitHub backend.
InitGitHubIdle ==
    /\ g_pc = [s \in Scanners |-> "idle"]
    /\ g_state = [s \in Scanners |-> None]
    /\ g_runs = <<>>
    /\ g_created_by = <<>>
    /\ g_matched = [s \in Scanners |-> None]

Init ==
    /\ test_definitions \in Mappings
    /\ timeout = DefaultTimeout
    /\ poll_interval = DefaultPollInterval
    /\ InitTasks
    /\ p_provider = "github-actions"
    /\ p_mode = "random"
    /\ p_definition = [version |-> "1.0", tests |-> <<>>]
    /\ InitProviderCalls
    /\ InitCliIdle
    /\ InitGitHubIdle

\* ------------------------------------------------------------------------
\* Pure parts of the code
\* ------------------------------------------------------------------------
\* orchestrator.py:48  `if not test_definitions`
IsEmptyMapping(m) == Len(m) = 0

\* Variant: the scanner's dispatch state is replaced by a fixed one.
WaitArg_fixed(state) == <<"run-of", "org/scanner-a">>

\* orchestrator.py:115  the state handed to wait_for_completion
WaitArg(state) == state

\* base.py:80  the state handed to poll_status
PollArg(state) == state

\* Variant: the timeout is taken for a loop time, not for a duration.
WaitDeadline_absolute(t, tmo) == tmo

\* base.py:77  deadline = loop.time() + timeout
WaitDeadline(t, tmo) == t + tmo

\* Variant: a truthiness test, which takes an empty result list for "running".
PollDone_truthy(r) == r # None /\ r[1] # <<>>

\* base.py:80  `(results := await poll_status(...)) is not None`
PollDone(r) == r # None

\* Variant: the deadline itself does not count as passed.
DeadlinePassed_strict(t, d) == t > d

\* base.py:83  `loop.time() >= deadline`
DeadlinePassed(t, d) == t >= d

\* base.py:84  TimeoutError(f"Tests did not complete within {timeout} seconds")
WaitTimeoutError(tmo) ==
    Exc("TimeoutError", <<"Tests did not complete within", tmo, "seconds">>)

\* orchestrator.py:117  ScannerResult(scanner_id=scanner_id, results=results)
TaskResult(scanner_id, results) == ScannerResult(scanner_id, results)

\* What a finished task hands to gather: a returned value or a raised exception.
Returned(v) == [kind |-> "ScannerResult", value |-> v]
Raised(e) == [kind |-> "exception", value |-> e]

\* Variant: the synthesized result carries no message.
ErrorResult_noText(e) ==
    ScannerResult("unknown", <<TestResult("error", 0, None, None)>>)

\* orchestrator.py:82-91  the ScannerResult synthesized for an exception
ErrorResult(e) ==
    ScannerResult("unknown", <<TestResult("error", 0, Some(Str(e)), None)>>)

\* Variant: the loop stops at the first exception instead of going on.
RECURSIVE ProcessResults_stopAtError(_)
ProcessResults_stopAtError(results) ==
    IF results = <<>> THEN <<>>
    ELSE LET result == Head(results)
         IN IF result.kind = "ScannerResult"
              THEN <<result.value>> \o ProcessResults_stopAtError(Tail(results))
            ELSE <<ErrorResult(result.value)>>

\* orchestrator.py:63-94  _process_results
RECURSIVE ProcessResults(_)
ProcessResults(results) ==
    IF results = <<>> THEN <<>>
    ELSE LET result == Head(results)
             rest == ProcessResults(Tail(results))
         IN IF result.kind = "ScannerResult"
              THEN <<result.value>> \o rest
            ELSE IF IsException(result.value)
              THEN <<ErrorResult(result.value)>> \o rest
            ELSE rest

\* Variant: the outcomes come in the order the tasks ended (the task that
\* ended first leads), as as_completed would hand them over.
Gathered_firstEndedFirst ==
    LET order == IF first_ended = None THEN test_definitions
                 ELSE <<first_ended[1]>>
                      \o SelectSeq(test_definitions, LAMBDA s : s # first_ended[1])
    IN [i \in 1..Len(test_definitions) |-> outcome[order[i]][1]]

\* orchestrator.py:58  what gather(*tasks, return_exceptions=True) yields:
\* the tasks' outcomes in the order the tasks were passed.
Gathered == [i \in 1..Len(test_definitions) |-> outcome[test_definitions[i]][1]]

AllTasksEnded == \A s \in Range(test_definitions) : pc[s] \in Terminal

\* ------------------------------------------------------------------------
\* Actions
\* ------------------------------------------------------------------------
\* A task that ends drops its coroutine frame: the locals of
\* _run_scanner_tests and wait_for_completion are gone.
FirstEnded(s) == IF first_ended = None THEN Some(s) ELSE first_ended

DropFrame(s) ==
    /\ dispatch_state' = [dispatch_state EXCEPT ![s] = None]
    /\ deadline' = [deadline EXCEPT ![s] = 0]
    /\ wake' = [wake EXCEPT ![s] = 0]
    /\ wait_start' = [wait_start EXCEPT ![s] = 0]

TaskVars == <<pc, dispatch_state, deadline, wake, outcome, dispatch_calls,
              poll_calls, dispatches_in_flight, polls_in_flight, none_polls,
          issued_state, poll_args, last_poll,
              sleeps, wait_start, first_ended>>

\* Variant: an empty mapping is reported as an error entry.
RunTests_reportEmpty ==
    /\ rt_pc = "start"
    /\ IF IsEmptyMapping(test_definitions)
         THEN /\ rt_pc' = "returned"
              /\ final_results' =
                    <<ErrorResult(Exc("RuntimeError", <<"No test definitions">>))>>
         ELSE /\ rt_pc' = "gather"
              /\ UNCHANGED final_results
    /\ UNCHANGED <<test_definitions, timeout, poll_interval, now, ticks>>
    /\ UNCHANGED TaskVars
    /\ UNCHANGED provVars
    /\ UNCHANGED cliVars
    /\ UNCHANGED ghVars

\* orchestrator.py:48-58  run_tests up to the await of gather
RunTests ==
    /\ rt_pc = "start"
    /\ IF IsEmptyMapping(test_definitions)
         THEN /\ rt_pc' = "returned"
              /\ final_results' = <<>>
         ELSE /\ rt_pc' = "gather"
              /\ UNCHANGED final_results
    /\ UNCHANGED <<test_definitions, timeout, poll_interval, now, ticks>>
    /\ UNCHANGED TaskVars
    /\ UNCHANGED provVars
    /\ UNCHANGED cliVars
    /\ UNCHANGED ghVars

\* orchestrator.py:104-112  a task starts and issues its dispatch request
TaskStart(s) ==
    /\ rt_pc = "gather"
    /\ s \in Range(test_definitions)
    /\ pc[s] = "NotDispatched"
    /\ pc' = [pc EXCEPT ![s] = "Dispatching"]
    /\ dispatch_calls' = [dispatch_calls EXCEPT ![s] = @ + 1]
    /\ dispatches_in_flight' = [dispatches_in_flight EXCEPT ![s] = @ + 1]
    /\ UNCHANGED <<test_definitions, timeout, poll_interval, rt_pc, final_results,
                   dispatch_state, deadline, wake, outcome, now, ticks,
                   poll_calls, polls_in_flight, none_polls, issued_state, poll_args, last_poll,
                   sleeps, wait_start, first_ended>>
    /\ UNCHANGED provVars
    /\ UNCHANGED cliVars
    /\ UNCHANGED ghVars

\* Variant: the deadline is tested before the first poll, so a wait whose
\* deadline has passed on entry raises without polling.
DispatchReturn_deadlineFirst(s, st) ==
    /\ pc[s] = "Dispatching"
    /\ issued_state' = [issued_state EXCEPT ![s] = Some(st)]
    /\ dispatches_in_flight' = [dispatches_in_flight EXCEPT ![s] = @ - 1]
    /\ IF DeadlinePassed(now, WaitDeadline(now, timeout))
         THEN /\ outcome' = [outcome EXCEPT ![s] = Some(Raised(WaitTimeoutError(timeout)))]
              /\ pc' = [pc EXCEPT ![s] = "TimedOut"]
              /\ first_ended' = FirstEnded(s)
              /\ UNCHANGED <<dispatch_state, wait_start, deadline, poll_calls,
                             poll_args, polls_in_flight>>
       ELSE /\ dispatch_state' = [dispatch_state EXCEPT ![s] = Some(WaitArg(st))]
            /\ wait_start' = [wait_start EXCEPT ![s] = now]
            /\ deadline' = [deadline EXCEPT ![s] = WaitDeadline(now, timeout)]
            /\ poll_calls' = [poll_calls EXCEPT ![s] = @ + 1]
            /\ poll_args' = [poll_args EXCEPT ![s] = @ \cup {PollArg(WaitArg(st))}]
            /\ polls_in_flight' = [polls_in_flight EXCEPT ![s] = @ + 1]
            /\ pc' = [pc EXCEPT ![s] = "Polling"]
            /\ UNCHANGED <<outcome, first_ended>>
    /\ UNCHANGED <<test_definitions, timeout, poll_interval, rt_pc, final_results,
                   wake, now, ticks, dispatch_calls, none_polls, last_poll, sleeps>>
    /\ UNCHANGED provVars
    /\ UNCHANGED cliVars
    /\ UNCHANGED ghVars

\* orchestrator.py:110-115, base.py:77-80  dispatch returns a state; the task
\* enters wait_for_completion, fixes its deadline and issues the first poll
DispatchReturn(s, st) ==
    /\ pc[s] = "Dispatching"
    /\ issued_state' = [issued_state EXCEPT ![s] = Some(st)]
    /\ dispatch_state' = [dispatch_state EXCEPT ![s] = Some(WaitArg(st))]
    /\ wait_start' = [wait_start EXCEPT ![s] = now]
    /\ deadline' = [deadline EXCEPT ![s] = WaitDeadline(now, timeout)]
    /\ poll_calls' = [poll_calls EXCEPT ![s] = @ + 1]
    /\ poll_args' = [poll_args EXCEPT ![s] = @ \cup {PollArg(WaitArg(st))}]
    /\ dispatches_in_flight' = [dispatches_in_flight EXCEPT ![s] = @ - 1]
    /\ polls_in_flight' = [polls_in_flight EXCEPT ![s] = @ + 1]
    /\ pc' = [pc EXCEPT ![s] = "Polling"]
    /\ UNCHANGED <<test_definitions, timeout, poll_interval, rt_pc, final_results,
                   wake, outcome, now, ticks, dispatch_calls, none_polls, last_poll,
                   sleeps, first_ended>>
    /\ UNCHANGED provVars
    /\ UNCHANGED cliVars
    /\ UNCHANGED ghVars

\* Variant: a failed dispatch is retried.
DispatchRaise_retry(s, e) ==
    /\ pc[s] = "Dispatching"
    /\ dispatch_calls' = [dispatch_calls EXCEPT ![s] = @ + 1]
    /\ UNCHANGED <<test_definitions, timeout, poll_interval, rt_pc, final_results,
                   pc, outcome, first_ended, dispatches_in_flight,
                   dispatch_state, deadline, wake, now, ticks,
                   poll_calls, polls_in_flight, none_polls, issued_state,
                   poll_args, last_poll, sleeps, wait_start>>
    /\ UNCHANGED provVars
    /\ UNCHANGED cliVars
    /\ UNCHANGED ghVars

\* orchestrator.py:110  dispatch raises: the exception ends the task
DispatchRaise(s, e) ==
    /\ pc[s] = "Dispatching"
    /\ dispatches_in_flight' = [dispatches_in_flight EXCEPT ![s] = @ - 1]
    /\ outcome' = [outcome EXCEPT ![s] = Some(Raised(e))]
    /\ pc' = [pc EXCEPT ![s] = "DispatchFailed"]
    /\ first_ended' = FirstEnded(s)
    /\ UNCHANGED <<test_definitions, timeout, poll_interval, rt_pc, final_results,
                   dispatch_state, deadline, wake, now, ticks, dispatch_calls,
                   poll_calls, polls_in_flight, none_polls, issued_state,
                   poll_args, last_poll, sleeps, wait_start>>
    /\ UNCHANGED provVars
    /\ UNCHANGED cliVars
    /\ UNCHANGED ghVars

\* Variant: a wait that runs out of time ends with a result of status timeout
\* instead of raising.
PollReturn_timeoutResult(s, r) ==
    /\ pc[s] = "Polling"
    /\ polls_in_flight' = [polls_in_flight EXCEPT ![s] = @ - 1]
    /\ last_poll' = [last_poll EXCEPT ![s] = Some(r)]
    /\ none_polls' = [none_polls EXCEPT ![s] = IF r = None THEN @ + 1 ELSE @]
    /\ IF PollDone(r)
         THEN /\ outcome' = [outcome EXCEPT ![s] = Some(Returned(TaskResult(s, r[1])))]
              /\ pc' = [pc EXCEPT ![s] = "Completed"]
              /\ first_ended' = FirstEnded(s)
              /\ DropFrame(s)
              /\ UNCHANGED sleeps
       ELSE IF DeadlinePassed(now, deadline[s])
         THEN /\ outcome' = [outcome EXCEPT ![s] = Some(Returned(TaskResult(s,
                                <<TestResult("timeout", timeout, None, None)>>)))]
              /\ pc' = [pc EXCEPT ![s] = "TimedOut"]
              /\ first_ended' = FirstEnded(s)
              /\ DropFrame(s)
              /\ UNCHANGED sleeps
       ELSE /\ sleeps' = [sleeps EXCEPT ![s] = @ + 1]
            /\ wake' = [wake EXCEPT ![s] = now + poll_interval]
            /\ pc' = [pc EXCEPT ![s] = "Sleeping"]
            /\ UNCHANGED <<outcome, first_ended, dispatch_state, deadline,
                           wait_start>>
    /\ UNCHANGED <<test_definitions, timeout, poll_interval, rt_pc, final_results,
                   now, ticks, dispatch_calls, poll_calls, dispatches_in_flight,
                   issued_state, poll_args>>
    /\ UNCHANGED provVars
    /\ UNCHANGED cliVars
    /\ UNCHANGED ghVars

\* base.py:80-86, orchestrator.py:117  a poll returns: results end the wait and
\* the task; the sentinel leads to the deadline check, then a raise or a sleep
PollReturn(s, r) ==
    /\ pc[s] = "Polling"
    /\ polls_in_flight' = [polls_in_flight EXCEPT ![s] = @ - 1]
    /\ last_poll' = [last_poll EXCEPT ![s] = Some(r)]
    /\ none_polls' = [none_polls EXCEPT ![s] = IF r = None THEN @ + 1 ELSE @]
    /\ IF PollDone(r)
         THEN /\ outcome' = [outcome EXCEPT ![s] = Some(Returned(TaskResult(s, r[1])))]
              /\ pc' = [pc EXCEPT ![s] = "Completed"]
              /\ first_ended' = FirstEnded(s)
              /\ DropFrame(s)
              /\ UNCHANGED sleeps
       ELSE IF DeadlinePassed(now, deadline[s])
         THEN /\ outcome' = [outcome EXCEPT ![s] = Some(Raised(WaitTimeoutError(timeout)))]
              /\ pc' = [pc EXCEPT ![s] = "TimedOut"]
              /\ first_ended' = FirstEnded(s)
              /\ DropFrame(s)
              /\ UNCHANGED sleeps
       ELSE /\ sleeps' = [sleeps EXCEPT ![s] = @ + 1]
            /\ wake' = [wake EXCEPT ![s] = now + poll_interval]
            /\ pc' = [pc EXCEPT ![s] = "Sleeping"]
            /\ UNCHANGED <<outcome, first_ended, dispatch_state, deadline,
                           wait_start>>
    /\ UNCHANGED <<test_definitions, timeout, poll_interval, rt_pc, final_results,
                   now, ticks, dispatch_calls, poll_calls, dispatches_in_flight,
                   issued_state, poll_args>>
    /\ UNCHANGED provVars
    /\ UNCHANGED cliVars
    /\ UNCHANGED ghVars

\* Variant: a failing task cancels the tasks still running (TaskGroup-like).
PollRaise_cancelSiblings(s, e) ==
    /\ pc[s] = "Polling"
    /\ polls_in_flight' = [polls_in_flight EXCEPT ![s] = @ - 1]
    /\ outcome' = [t \in Scanners |->
                     IF t = s THEN Some(Raised(e))
                     ELSE IF pc[t] \in {"Dispatching", "Polling", "Sleeping"}
                       THEN Some(Raised(Exc("RuntimeError", <<"cancelled">>)))
                     ELSE outcome[t]]
    /\ pc' = [t \in Scanners |->
                IF t = s \/ pc[t] \in {"Polling", "Sleeping"} THEN "PollFailed"
                ELSE IF pc[t] = "Dispatching" THEN "DispatchFailed"
                ELSE pc[t]]
    /\ first_ended' = FirstEnded(s)
    /\ DropFrame(s)
    /\ UNCHANGED <<test_definitions, timeout, poll_interval, rt_pc, final_results,
                   now, ticks, dispatch_calls, poll_calls, dispatches_in_flight,
                   none_polls, issued_state, poll_args, last_poll, sleeps>>
    /\ UNCHANGED provVars
    /\ UNCHANGED cliVars
    /\ UNCHANGED ghVars

\* base.py:80  poll_status raises: the exception leaves the loop and the task
PollRaise(s, e) ==
    /\ pc[s] = "Polling"
    /\ polls_in_flight' = [polls_in_flight EXCEPT ![s] = @ - 1]
    /\ outcome' = [outcome EXCEPT ![s] = Some(Raised(e))]
    /\ pc' = [pc EXCEPT ![s] = "PollFailed"]
    /\ first_ended' = FirstEnded(s)
    /\ DropFrame(s)
    /\ UNCHANGED <<test_definitions, timeout, poll_interval, rt_pc, final_results,
                   now, ticks, dispatch_calls, poll_calls, dispatches_in_flight,
                   none_polls, issued_state, poll_args, last_poll, sleeps>>
    /\ UNCHANGED provVars
    /\ UNCHANGED cliVars
    /\ UNCHANGED ghVars

\* Variant: the next poll is fired by the timer, whether or not the previous
\* poll has returned.
Wake_timer(s) ==
    /\ pc[s] \in {"Sleeping", "Polling"}
    /\ now >= wake[s]
    /\ poll_calls' = [poll_calls EXCEPT ![s] = @ + 1]
    /\ poll_args' = [poll_args EXCEPT ![s] = @ \cup {PollArg(dispatch_state[s][1])}]
    /\ polls_in_flight' = [polls_in_flight EXCEPT ![s] = @ + 1]
    /\ pc' = [pc EXCEPT ![s] = "Polling"]
    /\ UNCHANGED <<test_definitions, timeout, poll_interval, rt_pc, final_results,
                   dispatch_state, deadline, wake, outcome, now, ticks,
                   dispatch_calls, dispatches_in_flight, none_polls,
                   issued_state, last_poll, sleeps, wait_start, first_ended>>
    /\ UNCHANGED provVars
    /\ UNCHANGED cliVars
    /\ UNCHANGED ghVars

\* Variant: a sleep ends only once the loop time is past its end.
Wake_late(s) ==
    /\ pc[s] = "Sleeping"
    /\ now > wake[s]
    /\ poll_calls' = [poll_calls EXCEPT ![s] = @ + 1]
    /\ poll_args' = [poll_args EXCEPT ![s] = @ \cup {PollArg(dispatch_state[s][1])}]
    /\ polls_in_flight' = [polls_in_flight EXCEPT ![s] = @ + 1]
    /\ pc' = [pc EXCEPT ![s] = "Polling"]
    /\ UNCHANGED <<test_definitions, timeout, poll_interval, rt_pc, final_results,
                   dispatch_state, deadline, wake, outcome, now, ticks,
                   dispatch_calls, dispatches_in_flight, none_polls, issued_state, last_poll,
                   sleeps, wait_start, first_ended>>
    /\ UNCHANGED provVars
    /\ UNCHANGED cliVars
    /\ UNCHANGED ghVars

\* base.py:86 then :80  the sleep ends and the next poll is issued
Wake(s) ==
    /\ pc[s] = "Sleeping"
    /\ now >= wake[s]
    /\ poll_calls' = [poll_calls EXCEPT ![s] = @ + 1]
    /\ poll_args' = [poll_args EXCEPT ![s] = @ \cup {PollArg(dispatch_state[s][1])}]
    /\ polls_in_flight' = [polls_in_flight EXCEPT ![s] = @ + 1]
    /\ pc' = [pc EXCEPT ![s] = "Polling"]
    /\ UNCHANGED <<test_definitions, timeout, poll_interval, rt_pc, final_results,
                   dispatch_state, deadline, wake, outcome, now, ticks,
                   dispatch_calls, dispatches_in_flight, none_polls, issued_state, last_poll,
                   sleeps, wait_start, first_ended>>
    /\ UNCHANGED provVars
    /\ UNCHANGED cliVars
    /\ UNCHANGED ghVars

\* The event loop clock advances while tasks are suspended.
TickSteps == {poll_interval, timeout}

Tick(d) ==
    /\ rt_pc = "gather"
    /\ ~AllTasksEnded
    /\ ticks < MaxTicks
    /\ now' = now + d
    /\ ticks' = ticks + 1
    /\ UNCHANGED <<test_definitions, timeout, poll_interval, rt_pc, final_results>>
    /\ UNCHANGED TaskVars
    /\ UNCHANGED provVars
    /\ UNCHANGED cliVars
    /\ UNCHANGED ghVars

\* orchestrator.py:58-61  gather completes once every task has ended;
\* run_tests returns _process_results of the gathered outcomes
Gather ==
    /\ rt_pc = "gather"
    /\ AllTasksEnded
    /\ final_results' = ProcessResults(Gathered)
    /\ rt_pc' = "returned"
    /\ UNCHANGED <<test_definitions, timeout, poll_interval, now, ticks>>
    /\ UNCHANGED TaskVars
    /\ UNCHANGED provVars
    /\ UNCHANGED cliVars
    /\ UNCHANGED ghVars

Next ==
    \/ RunTests
    \/ \E s \in Scanners : TaskStart(s)
    \/ \E s \in Scanners : \E st \in IssuableStates(s) : DispatchReturn(s, st)
    \/ \E s \in Scanners, e \in DispatchExceptions : DispatchRaise(s, e)
    \/ \E s \in Scanners, r \in PollReturnValues : PollReturn(s, r)
    \/ \E s \in Scanners, e \in PollExceptions : PollRaise(s, e)
    \/ \E s \in Scanners : Wake(s)
    \/ \E d \in TickSteps : Tick(d)
    \/ Gather

Spec == Init /\ [][Next]_vars

TypeOK ==
    /\ rt_pc \in {"start", "gather", "returned"}
    /\ \A s \in Scanners :
         pc[s] \in {"NotDispatched", "Dispatching", "Polling", "Sleeping"} \cup Terminal

\* ------------------------------------------------------------------------
\* Properties
\* ------------------------------------------------------------------------
Inputs == Range(test_definitions)

FailedScanners == {s \in Inputs : pc[s] \in Failed}

\* The results the provider's last poll reported for scanner s.
PolledResults(s) == last_poll[s][1][1]

IsSynthesized(sr) ==
    /\ sr.scanner_id = "unknown"
    /\ Len(sr.results) = 1
    /\ sr.results[1].status = "error"

\* C1: for a non-empty mapping run_tests returns as many ScannerResults as
\* there are input scanners, whatever each scanner's outcome was.
C1_OneResultPerScanner ==
    (rt_pc = "returned" /\ test_definitions # <<>>)
        => Len(final_results) = Len(test_definitions)

C1_Witness ==
    /\ rt_pc = "returned"
    /\ \E s, t \in Inputs : pc[s] = "TimedOut" /\ pc[t] = "DispatchFailed"
    /\ Len(final_results) = 2

\* C2: when exactly one scanner's dispatch or wait raised, the returned
\* sequence has N entries, exactly one of them synthesized, and each sibling's
\* own result appears exactly once with the results its wait returned.
C2_PartialFailureKeepsSiblings ==
    (rt_pc = "returned" /\ Cardinality(FailedScanners) = 1) =>
        /\ Len(final_results) = Len(test_definitions)
        /\ Cardinality({i \in DOMAIN final_results :
                            IsSynthesized(final_results[i])}) = 1
        /\ \A s \in Inputs \ FailedScanners :
             Cardinality({i \in DOMAIN final_results :
                 final_results[i] = ScannerResult(s, PolledResults(s))}) = 1

C2_Witness ==
    /\ rt_pc = "returned"
    /\ Cardinality(FailedScanners) = 1
    /\ test_definitions[1] \in FailedScanners
    /\ \E t \in Inputs : pc[t] = "Completed" /\ PolledResults(t) # <<>>

\* What a sibling can observe of task t.
TaskView(t) ==
    <<pc[t], outcome[t], dispatch_state[t], deadline[t], wake[t],
      dispatch_calls[t], poll_calls[t], dispatches_in_flight[t],
      polls_in_flight[t]>>

\* C3: the step in which one scanner's task fails or times out leaves every
\* other scanner's task exactly as it was, and a task times out only once its
\* own deadline (the start of its own wait plus the timeout) is reached.
C3_FailureIsolated ==
    [][\A s \in Scanners :
          (pc[s] \notin Failed /\ pc'[s] \in Failed) =>
              /\ \A t \in Scanners \ {s} : TaskView(t)' = TaskView(t)
              /\ pc'[s] = "TimedOut" => now >= wait_start[s] + timeout]_vars

\* A scanner timed out first and its sibling, polled again afterwards, completed.
C3_Witness ==
    \E s, t \in Inputs :
        /\ first_ended = Some(s)
        /\ pc[s] = "TimedOut"
        /\ pc[t] = "Completed"
        /\ poll_calls[t] >= 2

\* C4: the entry returned for a scanner whose dispatch or wait raised has
\* scanner_id "unknown" and exactly one TestResult: status error, duration 0,
\* message the text of the exception.
C4_SynthesizedErrorShape ==
    rt_pc = "returned" =>
        \A i \in DOMAIN test_definitions :
            LET s == test_definitions[i]
            IN pc[s] \in Failed =>
                 /\ final_results[i].scanner_id = "unknown"
                 /\ Len(final_results[i].results) = 1
                 /\ final_results[i].results[1].status = "error"
                 /\ final_results[i].results[1].duration = 0
                 /\ final_results[i].results[1].message
                        = Some(outcome[s][1].value.msg)

C4_Witness ==
    /\ rt_pc = "returned"
    /\ \E s, t \in Inputs : pc[s] = "PollFailed" /\ pc[t] = "DispatchFailed"

\* C5: with an empty mapping run_tests returns the empty sequence and the
\* provider is never called: no dispatch, no poll.
C5_EmptyMappingNoCalls ==
    test_definitions = <<>> =>
        /\ rt_pc = "returned" => final_results = <<>>
        /\ \A s \in Scanners :
             /\ dispatch_calls[s] = 0
             /\ poll_calls[s] = 0
             /\ dispatches_in_flight[s] = 0
             /\ polls_in_flight[s] = 0

C5_Witness == test_definitions = <<>> /\ rt_pc = "returned"

\* C6: for a scanner whose dispatch and wait both succeed, the state the
\* provider returned from dispatch is the state wait_for_completion receives
\* and the only state ever passed to poll_status, and the ScannerResult bears
\* the scanner's own id and exactly the results the wait returned.
C6_StateThreadedUnchanged ==
    \A s \in Scanners :
        /\ dispatch_state[s] # None => dispatch_state[s] = issued_state[s]
        /\ poll_args[s] # {} =>
             issued_state[s] # None /\ poll_args[s] = {issued_state[s][1]}
        /\ pc[s] = "Completed" =>
             /\ poll_args[s] = {issued_state[s][1]}
             /\ outcome[s] = Some(Returned([scanner_id |-> s,
                                             results |-> PolledResults(s)]))
             /\ rt_pc = "returned" =>
                  \E i \in DOMAIN final_results :
                      /\ test_definitions[i] = s
                      /\ final_results[i].scanner_id = s
                      /\ final_results[i].results = PolledResults(s)

C6_Witness ==
    /\ rt_pc = "returned"
    /\ \E s \in Inputs :
         /\ s # "org/scanner-a"
         /\ pc[s] = "Completed"
         /\ poll_calls[s] >= 2
         /\ PolledResults(s) # <<>>

\* C7: a completed wait returns the results of its first poll that did not
\* return the sentinel; if that was the k-th poll, k polls and k-1 sleeps
\* were made (none when the first poll had the results).
C7_FirstResultReturned ==
    \A s \in Scanners :
        pc[s] = "Completed" =>
            /\ last_poll[s] # None /\ last_poll[s][1] # None
            /\ outcome[s][1].value.results = PolledResults(s)
            /\ none_polls[s] = poll_calls[s] - 1
            /\ sleeps[s] = poll_calls[s] - 1
            /\ polls_in_flight[s] = 0

C7_Witness ==
    \E s, t \in Inputs :
        /\ pc[s] = "Completed" /\ poll_calls[s] = 1 /\ sleeps[s] = 0
        /\ PolledResults(s) = <<>>
        /\ pc[t] = "Completed" /\ poll_calls[t] = 2 /\ sleeps[t] = 1

\* The step in which a poll of s returns the sentinel.
SentinelReturned(s) == none_polls'[s] = none_polls[s] + 1

\* C8: when a poll returns the sentinel and the deadline (start of the wait
\* plus timeout) has been reached, wait_for_completion raises TimeoutError;
\* before the deadline it sleeps instead.
C8_TimeoutWhenDeadlinePassed ==
    [][\A s \in Scanners :
          SentinelReturned(s) =>
              IF now >= wait_start[s] + timeout
                THEN /\ pc'[s] = "TimedOut"
                     /\ outcome'[s] # None
                     /\ outcome'[s][1].kind = "exception"
                     /\ outcome'[s][1].value.cls = "TimeoutError"
                ELSE pc'[s] = "Sleeping"]_vars

\* A scanner timed out at exactly its deadline.
C8_Witness ==
    \E s \in Inputs :
        /\ pc[s] = "TimedOut"
        /\ now = timeout
        /\ none_polls[s] = poll_calls[s]

\* C9: a scanner's first poll is issued only after its dispatch has returned,
\* and it never has more than one poll outstanding, whatever the other
\* scanners' tasks do.
C9_PollsSerialized ==
    \A s \in Scanners :
        /\ polls_in_flight[s] <= 1
        /\ dispatches_in_flight[s] <= 1
        /\ poll_calls[s] >= 1 =>
             /\ dispatches_in_flight[s] = 0
             /\ issued_state[s] # None
        /\ pc[s] = "Polling" <=> polls_in_flight[s] = 1
        /\ poll_calls[s] =
             none_polls[s] + polls_in_flight[s]
               + (IF pc[s] \in {"Completed", "PollFailed"} THEN 1 ELSE 0)

C9_Witness ==
    \E s, t \in Inputs :
        /\ s # t
        /\ polls_in_flight[s] = 1 /\ poll_calls[s] = 2
        /\ polls_in_flight[t] = 1

Lifecycle(s) ==
    IF pc[s] \in {"Dispatching", "Polling", "Sleeping"} THEN "Dispatched"
    ELSE pc[s]

LifecycleSteps ==
    {<<"NotDispatched", "Dispatched">>}
        \cup {<<"Dispatched", e>> : e \in Terminal}

\* C10: a scanner goes NotDispatched, Dispatched, then one terminal state;
\* it is dispatched at most once, is never polled if its dispatch failed,
\* and after a terminal state no dispatch or poll is issued for it and its
\* state no longer changes.
C10_LifecycleFinal ==
    [][\A s \in Scanners :
          /\ Lifecycle(s)' # Lifecycle(s) =>
                <<Lifecycle(s), Lifecycle(s)'>> \in LifecycleSteps
          /\ dispatch_calls'[s] <= 1
          /\ pc'[s] = "DispatchFailed" => poll_calls'[s] = 0
          /\ pc[s] \in Terminal =>
                /\ pc'[s] = pc[s]
                /\ outcome'[s] = outcome[s]
                /\ dispatch_calls'[s] = dispatch_calls[s]
                /\ poll_calls'[s] = poll_calls[s]]_vars

C10_Witness ==
    /\ rt_pc = "returned"
    /\ \E s, t \in Inputs :
         /\ pc[s] = "DispatchFailed" /\ dispatch_calls[s] = 1 /\ poll_calls[s] = 0
         /\ pc[t] = "TimedOut" /\ dispatch_calls[t] = 1 /\ poll_calls[t] = 2

\* ========================================================================
\* The four providers at their HTTP boundary
\* ========================================================================
\* One provider instance serves a sequence of dispatch_scanner_tests and
\* poll_status calls.  Each call suspends only on its HTTP requests, so a call
\* is one action up to the request and one action per response received.

Providers == {"github-actions", "gitlab-ci", "bitbucket", "azure-devops"}

\* GitHubActionsConfig.dispatch_id_mode
DispatchIdModes == {"random", "static"}

\* Configuration values; the secrets are distinct strings.
GitHubConfig ==
    [token |-> "github-token", owner |-> "org", repo |-> "runner",
     workflow_id |-> "scan.yml", ref |-> "main"]

GitLabConfig ==
    [trigger_token |-> "gitlab-trigger-token", api_token |-> "gitlab-api-token",
     project_id |-> "org/runner", ref |-> "main"]

BitbucketConfig ==
    [token |-> "bitbucket-token", workspace |-> "org", repo_slug |-> "runner",
     branch |-> "main"]

AzureConfig ==
    [token |-> "azure-token", organization |-> "org", project |-> "runner",
     pipeline_id |-> "7"]

\* ------------------------------------------------------------------------
\* Test definitions and their matrices
\* ------------------------------------------------------------------------
Test(name, scan_paths) ==
    [name |-> name, type |-> "source-code",
     source |-> [url |-> "https://github.com/org/tests.git", ref |-> "main"],
     scan_paths |-> scan_paths, timeout |-> "5m"]

\* Two tests that differ in every field: one without scan paths, one with two.
TestPool ==
    {Test("smoke", <<>>),
     [Test("paths", <<"app", "lib">>) EXCEPT
         !.type = "container-image", !.timeout = "300s",
         !.source = [url |-> "https://github.com/org/images.git", ref |-> "v1.0.0"]]}

SeqsUpTo(S, n) == UNION {[1..k -> S] : k \in 0..n}

TestDefinitions ==
    {[version |-> "1.0", tests |-> ts] : ts \in SeqsUpTo(TestPool, MaxTests)}

MatrixEntry(test, scan_path) ==
    [test_name |-> test.name, test_type |-> test.type,
     source_url |-> test.source.url, source_ref |-> test.source.ref,
     scan_path |-> scan_path, timeout |-> test.timeout]

EntryPaths_skipEmpty(test) ==
    [i \in 1..Len(test.scan_paths) |-> Some(test.scan_paths[i])]

\* The scan paths of one test as to_matrix_entries walks them: the paths, or
\* a single None when there is none.
EntryPaths(test) ==
    IF test.scan_paths # <<>>
    THEN [i \in 1..Len(test.scan_paths) |-> Some(test.scan_paths[i])]
    ELSE <<None>>

RECURSIVE ToMatrixEntries(_)
ToMatrixEntries(tests) ==
    IF tests = <<>> THEN <<>>
    ELSE LET t == Head(tests)
             paths == EntryPaths(t)
         IN [i \in 1..Len(paths) |-> MatrixEntry(t, paths[i])]
                \o ToMatrixEntries(Tail(tests))

\* The comprehension of the GitHub and Azure providers: one entry per scan
\* path, of the test's name and the path.
RECURSIVE PathEntries(_)
PathEntries(tests) ==
    IF tests = <<>> THEN <<>>
    ELSE LET t == Head(tests)
         IN [i \in 1..Len(t.scan_paths) |->
                [test_name |-> t.name, scan_path |-> t.scan_paths[i]]]
                \o PathEntries(Tail(tests))

MatrixEntries(provider, definition) ==
    IF provider \in {"github-actions", "azure-devops"}
    THEN PathEntries(definition.tests)
    ELSE ToMatrixEntries(definition.tests)

\* json.dumps: the value as one JSON text.
JsonDumps(value) == <<"json", value>>

\* ------------------------------------------------------------------------
\* HTTP requests
\* ------------------------------------------------------------------------
NoHeaders == [h \in {} |-> None]

Bearer(token) == <<"Bearer", token>>

\* base64 of a text.
B64Encode(text) == <<"b64", text>>

SessionHeaders_allBearer(provider) ==
    CASE provider = "github-actions" ->
            [Authorization |-> Bearer(GitHubConfig.token),
             Accept |-> <<"application/vnd.github+json">>]
      [] provider = "gitlab-ci" ->
            [Authorization |-> Bearer(GitLabConfig.api_token)]
      [] provider = "bitbucket" ->
            [Authorization |-> Bearer(BitbucketConfig.token),
             ContentType |-> <<"application/json">>]
      [] provider = "azure-devops" ->
            [Authorization |-> <<"Basic", B64Encode(<<":", AzureConfig.token>>)>>,
             ContentType |-> <<"application/json">>]

\* The default headers of the aiohttp session each from_config creates.
SessionHeaders(provider) ==
    CASE provider = "github-actions" ->
            [Authorization |-> Bearer(GitHubConfig.token),
             Accept |-> <<"application/vnd.github+json">>]
      [] provider = "gitlab-ci" -> NoHeaders
      [] provider = "bitbucket" ->
            [Authorization |-> Bearer(BitbucketConfig.token),
             ContentType |-> <<"application/json">>]
      [] provider = "azure-devops" ->
            [Authorization |-> <<"Basic", B64Encode(<<":", AzureConfig.token>>)>>,
             ContentType |-> <<"application/json">>]

\* urllib.parse.quote(text, safe="") of a path segment.
Quote(text) == <<"quote", text>>

\* A request as the session sends it: the headers given with the request
\* over the session's defaults.
Request(provider, method, url, headers, params, json) ==
    [method |-> method, url |-> url,
     headers |-> headers @@ SessionHeaders(provider),
     params |-> params, json |-> json]

RegistryRefs == {"main"}
RegistryRepos == {"org/scanner-registry"}

DispatchUrl(provider) ==
    CASE provider = "github-actions" ->
            <<"repos", GitHubConfig.owner, GitHubConfig.repo, "actions",
              "workflows", GitHubConfig.workflow_id, "dispatches">>
      [] provider = "gitlab-ci" ->
            <<"projects", Quote(GitLabConfig.project_id), "trigger", "pipeline">>
      [] provider = "bitbucket" ->
            <<"repositories", BitbucketConfig.workspace,
              BitbucketConfig.repo_slug, "pipelines">>
      [] provider = "azure-devops" ->
            <<AzureConfig.organization, AzureConfig.project, "_apis",
              "pipelines", AzureConfig.pipeline_id, "runs">>

\* The JSON body of the trigger request, with matrix the serialized matrix.
DispatchPayload(provider, scanner_id, registry_ref, registry_repo, dispatch_id, matrix) ==
    CASE provider = "github-actions" ->
            [ref |-> GitHubConfig.ref,
             inputs |-> [dispatch_id |-> dispatch_id,
                         scanner_id |-> scanner_id,
                         registry_ref |-> registry_ref,
                         registry_repo |-> registry_repo,
                         matrix |-> matrix]]
      [] provider = "gitlab-ci" ->
            [ref |-> GitLabConfig.ref,
             token |-> GitLabConfig.trigger_token,
             variables |-> [SCANNER_ID |-> scanner_id,
                            REGISTRY_REF |-> registry_ref,
                            REGISTRY_REPO |-> registry_repo,
                            MATRIX_TESTS |-> matrix]]
      [] provider = "bitbucket" ->
            [target |-> [type |-> "pipeline_ref_target",
                         selector |-> [type |-> "custom",
                                       pattern |-> "test-scanner"],
                         ref_name |-> BitbucketConfig.branch,
                         ref_type |-> "branch"],
             variables |-> <<[key |-> "SCANNER_ID", value |-> scanner_id],
                             [key |-> "REGISTRY_REF", value |-> registry_ref],
                             [key |-> "REGISTRY_REPO", value |-> registry_repo],
                             [key |-> "MATRIX_TESTS", value |-> matrix]>>]
      [] provider = "azure-devops" ->
            [templateParameters |-> [SCANNER_ID |-> scanner_id,
                                     REGISTRY_REF |-> registry_ref,
                                     REGISTRY_REPO |-> registry_repo,
                                     MATRIX_TESTS |-> matrix]]

DispatchPosts_perEntry(provider, scanner_id, definition, registry_ref, registry_repo, dispatch_id) ==
    LET entries == MatrixEntries(provider, definition)
    IN [i \in 1..Len(entries) |->
          Request(provider, "POST", DispatchUrl(provider), NoHeaders, None,
                  Some(DispatchPayload(provider, scanner_id, registry_ref,
                                       registry_repo, dispatch_id,
                                       JsonDumps(<<entries[i]>>))))]

\* The requests one dispatch_scanner_tests call posts: one, whose body holds
\* the whole matrix.
DispatchPosts(provider, scanner_id, definition, registry_ref, registry_repo, dispatch_id) ==
    <<Request(provider, "POST", DispatchUrl(provider), NoHeaders, None,
              Some(DispatchPayload(provider, scanner_id, registry_ref,
                                   registry_repo, dispatch_id,
                                   JsonDumps(MatrixEntries(provider, definition)))))>>

\* ------------------------------------------------------------------------
\* HTTP responses
\* ------------------------------------------------------------------------
Response(status, text, json, headers) ==
    [status |-> status, text |-> text, json |-> json, headers |-> headers]

\* Status codes a backend may answer with.
StatusPool == {OK, Created, 202, NoContent, 400, 500}

\* Response body texts an error answer may carry.
ErrorTexts == {"Bad credentials"}

\* JSON values of the kinds the providers tell apart.
JsonInt(n) == <<"int", n>>
JsonStr(s) == <<"str", s>>
\* true and false are the integers 1 and 0 to Python.
JsonBool(b) == <<"bool", IF b THEN 1 ELSE 0>>
\* isinstance(v, int): bool is a subclass of int, so true and false pass too.
IsInt(v) == v # None /\ v[1] \in {"int", "bool"}
IsStr(v) == v # None /\ v[1] = "str"

\* dict.get(key, default) on a mapping, and on a response's headers.
Get(mapping, key, default) ==
    IF key \in DOMAIN mapping THEN mapping[key] ELSE default

\* str() of an integer.
StrInt(n) == <<"str", n>>

\* str() of a boolean: the text "True" or "False", not the digits of 1 or 0.
StrBool(n) == <<"str-of-bool", n>>

\* str() of a JSON value that passed isinstance(v, int).
StrOfInt(v) == IF v[1] = "bool" THEN StrBool(v[2]) ELSE StrInt(v[2])

\* ------------------------------------------------------------------------
\* dispatch_scanner_tests
\* ------------------------------------------------------------------------
\* uuid4 draws a value never drawn before; the n-th draw is the n-th name.
UuidPool == <<"uuid-1", "uuid-2", "uuid-3", "uuid-4", "uuid-5", "uuid-6">>

Uuid4_again(n) == UuidPool[1]

Uuid4(n) == UuidPool[n + 1]

StaticDispatchId == "static-dispatch-id"

DispatchId(mode, n) ==
    IF mode = "static" THEN StaticDispatchId ELSE Uuid4(n)

GitHubDispatchState(dispatch_id, dispatch_time) ==
    [dispatch_id |-> dispatch_id, dispatch_time |-> dispatch_time]

BitbucketDispatchState(pipeline_uuid, run_url) ==
    [pipeline_uuid |-> pipeline_uuid, run_url |-> run_url]

AcceptedStatus(provider) ==
    CASE provider = "github-actions" -> NoContent
      [] provider = "gitlab-ci" -> Created
      [] provider = "bitbucket" -> Created
      [] provider = "azure-devops" -> OK

DispatchAccepted_or202(provider, status) ==
    status = AcceptedStatus(provider)
        \/ (provider = "github-actions" /\ status = 202)

\* The status test after the POST: anything but the one expected status fails.
DispatchAccepted(provider, status) == status = AcceptedStatus(provider)

DispatchFailureText(provider) ==
    CASE provider = "github-actions" -> "Failed to dispatch workflow:"
      [] provider = "gitlab-ci" -> "Failed to create pipeline:"
      [] provider = "bitbucket" -> "Failed to trigger pipeline:"
      [] provider = "azure-devops" -> "Failed to run pipeline:"

DispatchFailed_noBody(provider, response) ==
    Exc("RuntimeError", <<DispatchFailureText(provider), response.status>>)

\* The error raised on a status that is not the accepted one: the f-string
\* of the provider's text, the status and the response text.
DispatchFailed(provider, response) ==
    Exc("RuntimeError",
        <<DispatchFailureText(provider), response.status, response.text>>)

\* What a call returned or raised.
P_Returned(v) == [kind |-> "return", value |-> v]

\* The data the create call of a backend may answer with.
DispatchData(provider, n) ==
    CASE provider = "github-actions" -> {None}
      [] provider = "gitlab-ci" ->
            {Some([id |-> JsonInt(100 + n)]), Some([id |-> JsonStr("100")]),
             Some([id |-> JsonBool(TRUE)]), Some([message |-> JsonStr("created")])}
      [] provider = "bitbucket" ->
            {Some([uuid |-> JsonStr("{pipeline}")]),
             Some([message |-> JsonStr("created")])}
      [] provider = "azure-devops" ->
            {Some([id |-> JsonInt(100 + n)]), Some([id |-> JsonStr("100")]),
             Some([id |-> JsonBool(TRUE)]), Some([message |-> JsonStr("created")])}

DispatchHeaders(provider) ==
    IF provider = "bitbucket"
    THEN {NoHeaders, [Location |-> "https://bitbucket.org/org/runner/pipelines/1"]}
    ELSE {NoHeaders}

DispatchResponses(provider, n) ==
    {Response(st, tx, js, hd) :
        st \in StatusPool, tx \in ErrorTexts,
        js \in DispatchData(provider, n), hd \in DispatchHeaders(provider)}

\* The outcome of dispatch_scanner_tests once the POST is answered; pending
\* is the state the GitHub provider prepared before posting.
DispatchOutcome(provider, response, pending) ==
    IF ~DispatchAccepted(provider, response.status)
    THEN Raised(DispatchFailed(provider, response))
    ELSE CASE provider = "github-actions" -> P_Returned(pending[1])
           [] provider = "gitlab-ci" ->
                LET pipeline_id == Get(response.json[1], "id", None)
                IN IF IsInt(pipeline_id)
                   THEN P_Returned(StrOfInt(pipeline_id))
                   ELSE Raised(Exc("RuntimeError",
                                   <<"Pipeline ID not found in response">>))
           [] provider = "bitbucket" ->
                LET uuid == Get(response.json[1], "uuid", None)
                IN IF IsStr(uuid)
                   THEN P_Returned(BitbucketDispatchState(
                            uuid[2], Get(response.headers, "Location", "")))
                   ELSE Raised(Exc("ValidationError", <<"uuid">>))
           [] provider = "azure-devops" ->
                LET run_id == Get(response.json[1], "id", None)
                IN IF IsInt(run_id)
                   THEN P_Returned(StrOfInt(run_id))
                   ELSE Raised(Exc("RuntimeError",
                                   <<"Run ID not found in response">>))

\* dispatch_scanner_tests up to its POST.
P_Dispatch(scanner_id, definition, registry_ref, registry_repo) ==
    /\ p_pc = "idle"
    /\ p_calls < MaxCalls
    /\ LET github == p_provider = "github-actions"
           dispatch_id == IF github THEN Some(DispatchId(p_mode, p_uuids))
                          ELSE None
       IN /\ p_uuids' = IF github /\ p_mode # "static" THEN p_uuids + 1
                        ELSE p_uuids
          /\ p_pending' = IF github
                          THEN Some(GitHubDispatchState(dispatch_id[1], p_utc))
                          ELSE None
          /\ p_sent' = DispatchPosts(p_provider, scanner_id, definition,
                                     registry_ref, registry_repo, dispatch_id)
    /\ p_definition' = definition
    /\ p_pc' = "dispatching"
    /\ p_calls' = p_calls + 1
    /\ p_utc' = p_utc + 1
    /\ p_response' = None
    /\ p_result' = None
    /\ p_polled' = None
    /\ p_found' = None
    /\ p_pages' = <<>>
    /\ p_page' = 0
    /\ UNCHANGED <<p_provider, p_mode, p_states>>
    /\ UNCHANGED orchVars
    /\ UNCHANGED cliVars
    /\ UNCHANGED ghVars

\* dispatch_scanner_tests from the answer to its POST to its end.
P_DispatchResponse(response) ==
    /\ p_pc = "dispatching"
    /\ LET out == DispatchOutcome(p_provider, response, p_pending)
       IN /\ p_result' = Some([call |-> "dispatch", outcome |-> out])
          /\ p_states' = IF out.kind = "return"
                         THEN Append(p_states, out.value) ELSE p_states
    /\ p_response' = Some(response)
    /\ p_pc' = "idle"
    /\ p_pending' = None
    /\ UNCHANGED <<p_provider, p_mode, p_definition, p_sent, p_polled, p_page,
                   p_found, p_pages, p_uuids, p_calls, p_utc>>
    /\ UNCHANGED orchVars
    /\ UNCHANGED cliVars
    /\ UNCHANGED ghVars

\* ------------------------------------------------------------------------
\* poll_status: what the backends answer
\* ------------------------------------------------------------------------
\* github_actions/models.py
WorkflowRunStatuses == {"queued", "in_progress", "completed"}

WorkflowConclusions ==
    {"success", "failure", "cancelled", "timed_out", "action_required",
     "neutral", "skipped", "stale"}

\* gitlab_ci/models.py
PipelineStatuses ==
    {"created", "waiting_for_resource", "preparing", "pending", "running",
     "success", "failed", "canceled", "skipped", "manual", "scheduled"}

\* bitbucket/models.py
PipelineStateNames ==
    {"PENDING", "IN_PROGRESS", "COMPLETED", "STOPPED", "ERROR", "FAILED",
     "PAUSED"}

PipelineResultNames == {"SUCCESSFUL", "FAILED", "ERROR", "STOPPED"}

\* azure_devops/models.py
PipelineRunStates == {"unknown", "canceling", "completed", "inProgress"}

PipelineRunResults == {"unknown", "canceled", "failed", "succeeded"}

Optional(S) == {None} \cup {Some(x) : x \in S}

\* A display title is a sequence of words; a dispatch id is one word, and
\* "dispatch_id in title" is the id being one of the words.
TitleOf(dispatch_id) == <<"Scan", dispatch_id>>

OtherTitle == <<"Scan", "another-dispatch">>

Contains(title, dispatch_id) == \E i \in 1..Len(title) : title[i] = dispatch_id

WorkflowRun(id, status, conclusion, display_title) ==
    [id |-> id, status |-> status, conclusion |-> conclusion,
     name |-> "scan", display_title |-> display_title,
     html_url |-> <<"https://github.com/org/runner/actions/runs", id>>,
     created_at |-> 5, updated_at |-> 5 + id]

\* Status and conclusion of the runs a listing may hold for a dispatch.
RunOutcomes ==
    {<<"queued", None>>, <<"in_progress", None>>}
        \cup {<<"completed", c>> : c \in Optional(WorkflowConclusions)}

\* A page of n runs: another dispatch's finished runs, except at the
\* positions of hits, where hits[i] is the status and conclusion of a run of
\* this dispatch.
RunPage(n, dispatch_id, hits) ==
    [i \in 1..n |->
        IF i \in DOMAIN hits
        THEN WorkflowRun(i, hits[i][1], hits[i][2], TitleOf(dispatch_id))
        ELSE WorkflowRun(i, "completed", Some("failure"), OtherTitle)]

NoHits == [i \in {} |-> None]

\* The pages the run listing may answer with: full or short, with no run of
\* the dispatch, one, or two; the last one holds a run that fails validation.
RunPages(dispatch_id, page) ==
    (IF page < MaxPages THEN {RunPage(PerPage, dispatch_id, NoHits)} ELSE {})
    \cup {RunPage(ShortPage, dispatch_id, NoHits), <<>>}
    \cup {RunPage(PerPage, dispatch_id, [i \in {PerPage} |-> o]) :
            o \in RunOutcomes}
    \cup {RunPage(ShortPage, dispatch_id, [i \in {2} |-> o]) :
            o \in RunOutcomes}
    \cup {RunPage(ShortPage, dispatch_id,
                  [i \in {2, 3} |-> IF i = 2 THEN o
                                    ELSE <<"completed", Some("success")>>]) :
            o \in RunOutcomes}
    \cup {RunPage(ShortPage, dispatch_id,
                  [i \in {1} |-> <<"waiting", None>>])}

\* Timestamps a backend may report for the end of a run created at 5: a later
\* one, and one earlier than the creation.
EndTimes == {12, 3}

GitLabPipeline(id, status, updated_at) ==
    [id |-> id, status |-> status, ref |-> "main",
     web_url |-> <<"https://gitlab.com/org/runner/-/pipelines", id>>,
     created_at |-> 5, updated_at |-> updated_at]

BitbucketPipeline(uuid, name, result, completed_on) ==
    [uuid |-> uuid, build_number |-> 1,
     state |-> [name |-> name, result |-> result],
     created_on |-> 5, completed_on |-> completed_on]

AzurePipelineRun(id, state, result, finished_date, links) ==
    [id |-> id, name |-> "scan", state |-> state, result |-> result,
     created_date |-> 5, finished_date |-> finished_date, links |-> links]

AzureLinks ==
    {None, Some([web |-> None]),
     Some([web |-> Some([href |-> "https://dev.azure.com/org/runner/_build/results"])])}

\* The data a status request may be answered with under status 200; each
\* set holds values outside the models' literals too.
PollData(provider, dstate, page) ==
    CASE provider = "github-actions" ->
            {[workflow_runs |-> runs] :
                runs \in RunPages(dstate.dispatch_id, page)}
      [] provider = "gitlab-ci" ->
            {GitLabPipeline(dstate[2], st, up) :
                st \in PipelineStatuses \cup {"archived"}, up \in EndTimes}
      [] provider = "bitbucket" ->
            {BitbucketPipeline(dstate.pipeline_uuid, nm, rs, co) :
                nm \in PipelineStateNames \cup {"HALTED"},
                rs \in Optional([name : PipelineResultNames \cup {"EXPIRED"}]),
                co \in Optional(EndTimes)}
      [] provider = "azure-devops" ->
            {AzurePipelineRun(dstate[2], st, rs, fd, ln) :
                st \in PipelineRunStates \cup {"paused"},
                rs \in Optional(PipelineRunResults),
                fd \in {None, Some(8)}, ln \in AzureLinks}

PollResponses(provider, dstate, page) ==
    {Response(OK, "", Some(data), NoHeaders) :
        data \in PollData(provider, dstate, page)}
    \cup {Response(st, tx, None, NoHeaders) :
            st \in StatusPool \ {OK}, tx \in ErrorTexts}

\* ------------------------------------------------------------------------
\* poll_status: the four implementations
\* ------------------------------------------------------------------------
GitHub_CONCLUSION_TO_STATUS_neutralError ==
    [c \in Optional(WorkflowConclusions) |->
        CASE c = Some("success") -> "success"
          [] c = Some("failure") -> "failure"
          [] c = Some("timed_out") -> "timeout"
          [] OTHER -> "error"]

GitHub_CONCLUSION_TO_STATUS ==
    [c \in Optional(WorkflowConclusions) |->
        CASE c = Some("success") -> "success"
          [] c = Some("failure") -> "failure"
          [] c = Some("cancelled") -> "error"
          [] c = Some("timed_out") -> "timeout"
          [] c = Some("action_required") -> "error"
          [] c = Some("neutral") -> "success"
          [] c = Some("skipped") -> "error"
          [] c = Some("stale") -> "error"
          [] c = None -> "error"]

GitLab_COMPLETED_STATUSES_noManual ==
    {"success", "failed", "canceled", "skipped"}

GitLab_COMPLETED_STATUSES ==
    {"success", "failed", "canceled", "skipped", "manual"}

GitLab_STATUS_TO_RESULT ==
    [success |-> "success", failed |-> "failure", canceled |-> "error",
     skipped |-> "error", manual |-> "error"]

Bitbucket_COMPLETED_STATES == {"COMPLETED", "STOPPED", "ERROR", "FAILED"}

Bitbucket_RESULT_TO_STATUS_stoppedFailure ==
    [r \in Optional({"SUCCESSFUL", "FAILED", "ERROR", "STOPPED"}) |->
        CASE r = Some("SUCCESSFUL") -> "success"
          [] r = Some("FAILED") -> "failure"
          [] r = Some("ERROR") -> "error"
          [] r = Some("STOPPED") -> "failure"
          [] r = None -> "error"]

Bitbucket_RESULT_TO_STATUS ==
    [r \in Optional({"SUCCESSFUL", "FAILED", "ERROR", "STOPPED"}) |->
        CASE r = Some("SUCCESSFUL") -> "success"
          [] r = Some("FAILED") -> "failure"
          [] r = Some("ERROR") -> "error"
          [] r = Some("STOPPED") -> "error"
          [] r = None -> "error"]

Azure_COMPLETED_STATES_noCanceling == {"completed"}

Azure_COMPLETED_STATES == {"completed", "canceling"}

Azure_RESULT_TO_STATUS ==
    [r \in {Some("succeeded"), Some("failed"), Some("canceled")} |->
        CASE r = Some("succeeded") -> "success"
          [] r = Some("failed") -> "failure"
          [] r = Some("canceled") -> "error"]

\* strftime('%Y-%m-%dT%H:%M:%SZ') of a time.
Strftime(t) == <<"%Y-%m-%dT%H:%M:%SZ", t>>

\* The status request of one poll; page is the page find_workflow_run asks.
PollRequest(provider, dstate, page) ==
    CASE provider = "github-actions" ->
            Request(provider, "GET",
                    <<"repos", GitHubConfig.owner, GitHubConfig.repo,
                      "actions", "runs">>,
                    NoHeaders,
                    Some([per_page |-> "100",
                          created |-> <<">=", Strftime(dstate.dispatch_time)>>,
                          page |-> StrInt(page)]),
                    None)
      [] provider = "gitlab-ci" ->
            Request(provider, "GET",
                    <<"projects", Quote(GitLabConfig.project_id), "pipelines",
                      dstate>>,
                    [Authorization |-> Bearer(GitLabConfig.api_token)],
                    None, None)
      [] provider = "bitbucket" ->
            Request(provider, "GET",
                    <<"repositories", BitbucketConfig.workspace,
                      BitbucketConfig.repo_slug, "pipelines",
                      dstate.pipeline_uuid>>,
                    NoHeaders, None, None)
      [] provider = "azure-devops" ->
            Request(provider, "GET",
                    <<AzureConfig.organization, AzureConfig.project, "_apis",
                      "pipelines", AzureConfig.pipeline_id, "runs",
                      dstate>>,
                    NoHeaders, None, None)

PollFailureText(provider) ==
    CASE provider = "github-actions" -> "Failed to list workflow runs:"
      [] provider = "gitlab-ci" -> "Failed to get pipeline:"
      [] provider = "bitbucket" -> "Failed to get pipeline:"
      [] provider = "azure-devops" -> "Failed to get pipeline run:"

PollFailed_sentinel(provider, response) == P_Returned(None)

\* The end of a poll on a status other than 200: the error raised, of the
\* provider's text, the status and the response text.
PollFailed(provider, response) ==
    Raised(Exc("RuntimeError",
               <<PollFailureText(provider), response.status, response.text>>))

\* model_validate of the answered data.
Validates(provider, data) ==
    CASE provider = "github-actions" ->
            \A i \in 1..Len(data.workflow_runs) :
                /\ data.workflow_runs[i].status \in WorkflowRunStatuses
                /\ data.workflow_runs[i].conclusion
                       \in Optional(WorkflowConclusions)
      [] provider = "gitlab-ci" -> data.status \in PipelineStatuses
      [] provider = "bitbucket" ->
            /\ data.state.name \in PipelineStateNames
            /\ data.state.result \in Optional([name : PipelineResultNames])
      [] provider = "azure-devops" ->
            /\ data.state \in PipelineRunStates
            /\ data.result \in Optional(PipelineRunResults)

ValidationError == Raised(Exc("ValidationError", <<"literal_error">>))

FirstMatch_newest(runs, dispatch_id) == IF Len(runs) = 0 THEN 0 ELSE 1

\* The position of the first run of a page whose title holds the id, or 0.
FirstMatch(runs, dispatch_id) ==
    LET hits == {i \in 1..Len(runs) :
                    Contains(runs[i].display_title, dispatch_id)}
    IN IF hits = {} THEN 0
       ELSE CHOOSE i \in hits : \A j \in hits : i <= j

PageExhausted_empty(runs) == Len(runs) = 0

\* The loop's exit test after a page without a match.
PageExhausted(runs) == Len(runs) < PerPage

\* GitHub poll_status once find_workflow_run has returned found.
GitHubPollResult(found) ==
    IF found = None THEN None
    ELSE LET run == found[1]
         IN IF run.status # "completed" THEN None
            ELSE Some(<<TestResult(GitHub_CONCLUSION_TO_STATUS[run.conclusion],
                                   run.updated_at - run.created_at,
                                   None, Some(run.html_url))>>)

GitLabPollResult(pipeline) ==
    IF pipeline.status \notin GitLab_COMPLETED_STATUSES THEN None
    ELSE Some(<<TestResult(Get(GitLab_STATUS_TO_RESULT, pipeline.status, "error"),
                           pipeline.updated_at - pipeline.created_at,
                           None, Some(pipeline.web_url))>>)

BitbucketPollResult_noUrl(pipeline, dstate) ==
    IF pipeline.state.name \notin Bitbucket_COMPLETED_STATES THEN None
    ELSE Some(<<TestResult("error", 0, None, None)>>)

BitbucketPollResult(pipeline, dstate) ==
    IF pipeline.state.name \notin Bitbucket_COMPLETED_STATES THEN None
    ELSE LET duration == IF pipeline.completed_on # None
                         THEN pipeline.completed_on[1] - pipeline.created_on
                         ELSE 0
             result_name == IF pipeline.state.result # None
                            THEN Some(pipeline.state.result[1].name)
                            ELSE None
         IN Some(<<TestResult(Get(Bitbucket_RESULT_TO_STATUS, result_name, "error"),
                              duration, None, Some(dstate.run_url))>>)

AzurePollResult(run) ==
    IF run.state \notin Azure_COMPLETED_STATES THEN None
    ELSE LET duration == IF run.finished_date # None
                         THEN run.finished_date[1] - run.created_date
                         ELSE 0
             run_url == IF run.links # None /\ run.links[1].web # None
                        THEN run.links[1].web[1].href
                        ELSE ""
         IN Some(<<TestResult(Get(Azure_RESULT_TO_STATUS, run.result, "error"),
                              duration, None, Some(run_url))>>)

\* poll_status up to its first status request.
P_Poll(i) ==
    /\ p_pc = "idle"
    /\ p_calls < MaxCalls
    /\ i \in 1..Len(p_states)
    /\ p_polled' = Some(p_states[i])
    /\ p_page' = 1
    /\ p_sent' = <<PollRequest(p_provider, p_states[i], 1)>>
    /\ p_pc' = "polling"
    /\ p_calls' = p_calls + 1
    /\ p_utc' = p_utc + 1
    /\ p_response' = None
    /\ p_result' = None
    /\ p_found' = None
    /\ p_pages' = <<>>
    /\ UNCHANGED <<p_provider, p_mode, p_definition, p_states, p_pending,
                   p_uuids>>
    /\ UNCHANGED orchVars
    /\ UNCHANGED cliVars
    /\ UNCHANGED ghVars

\* poll_status from the answer to a status request to the next request, or
\* to its end.
P_PollResponse(response) ==
    /\ p_pc = "polling"
    /\ LET state == p_polled[1]
           finish(out) ==
               /\ p_result' = Some([call |-> "poll", outcome |-> out])
               /\ p_pc' = "idle"
               /\ UNCHANGED <<p_sent, p_page>>
       IN IF response.status # OK
          THEN /\ finish(PollFailed(p_provider, response))
               /\ UNCHANGED <<p_found, p_pages>>
          ELSE IF ~Validates(p_provider, response.json[1])
          THEN /\ finish(ValidationError)
               /\ UNCHANGED <<p_found, p_pages>>
          ELSE CASE p_provider = "github-actions" ->
                    LET runs == response.json[1].workflow_runs
                        at == FirstMatch(runs, state.dispatch_id)
                    IN /\ p_pages' = Append(p_pages, runs)
                       /\ IF at # 0
                          THEN /\ p_found' = Some(runs[at])
                               /\ finish(P_Returned(GitHubPollResult(Some(runs[at]))))
                          ELSE IF PageExhausted(runs)
                          THEN /\ p_found' = None
                               /\ finish(P_Returned(GitHubPollResult(None)))
                          ELSE /\ p_page' = p_page + 1
                               /\ p_sent' = Append(p_sent,
                                      PollRequest(p_provider, state, p_page + 1))
                               /\ UNCHANGED <<p_found, p_result, p_pc>>
                 [] p_provider = "gitlab-ci" ->
                    /\ finish(P_Returned(GitLabPollResult(response.json[1])))
                    /\ UNCHANGED <<p_found, p_pages>>
                 [] p_provider = "bitbucket" ->
                    /\ finish(P_Returned(BitbucketPollResult(response.json[1], state)))
                    /\ UNCHANGED <<p_found, p_pages>>
                 [] p_provider = "azure-devops" ->
                    /\ finish(P_Returned(AzurePollResult(response.json[1])))
                    /\ UNCHANGED <<p_found, p_pages>>
    /\ p_response' = Some(response)
    /\ UNCHANGED <<p_provider, p_mode, p_definition, p_states, p_pending,
                   p_polled, p_uuids, p_calls, p_utc>>
    /\ UNCHANGED orchVars
    /\ UNCHANGED cliVars
    /\ UNCHANGED ghVars

\* A provider of any kind and configuration, before its first call, under an
\* orchestrator that was given nothing to run.
InitProvider ==
    /\ p_provider \in Providers
    /\ p_mode \in IF p_provider = "github-actions" THEN DispatchIdModes
                  ELSE {"random"}
    /\ p_definition = [version |-> "1.0", tests |-> <<>>]
    /\ InitProviderCalls
    /\ InitCliIdle
    /\ InitGitHubIdle
    /\ test_definitions = <<>>
    /\ timeout = DefaultTimeout
    /\ poll_interval = DefaultPollInterval
    /\ InitTasks

NextProvider ==
    \/ \E d \in TestDefinitions, ref \in RegistryRefs, repo \in RegistryRepos :
            P_Dispatch(ScannerIdPool[1], d, ref, repo)
    \/ /\ p_pc = "dispatching"
       /\ \E r \in DispatchResponses(p_provider, p_calls) : P_DispatchResponse(r)
    \/ \E i \in 1..MaxCalls : P_Poll(i)
    \/ /\ p_pc = "polling"
       /\ \E r \in PollResponses(p_provider, p_polled[1], p_page) :
            P_PollResponse(r)

SpecProvider == InitProvider /\ [][NextProvider]_vars

\* ------------------------------------------------------------------------
\* Properties of the providers
\* ------------------------------------------------------------------------
\* A dispatch_scanner_tests call has posted and is awaiting the answer, or
\* was the latest call to end.
DispatchEnded == p_pc = "idle" /\ p_result # None /\ p_result[1].call = "dispatch"

DispatchStarted == p_pc = "dispatching" \/ DispatchEnded

PollEnded == p_pc = "idle" /\ p_result # None /\ p_result[1].call = "poll"

\* What the latest call returned or raised.
Outcome == p_result[1].outcome

\* The parameter of a trigger request's body that holds the matrix.
MatrixParameter(provider, payload) ==
    CASE provider = "github-actions" -> payload.inputs.matrix
      [] provider = "gitlab-ci" -> payload.variables.MATRIX_TESTS
      [] provider = "bitbucket" -> payload.variables[4].value
      [] provider = "azure-devops" -> payload.templateParameters.MATRIX_TESTS

\* C11: each dispatch_scanner_tests call, on any provider and for any number
\* of tests and scan paths, sends exactly one trigger request, and that
\* request carries the whole matrix as one serialized JSON parameter.
C11_OneTriggerRequest ==
    DispatchStarted =>
        /\ Len(p_sent) = 1
        /\ p_sent[1].method = "POST"
        /\ p_sent[1].url = DispatchUrl(p_provider)
        /\ MatrixParameter(p_provider, p_sent[1].json[1])
               = JsonDumps(MatrixEntries(p_provider, p_definition))

C11_Witness ==
    /\ DispatchEnded
    /\ Outcome.kind = "return"
    /\ p_provider = "bitbucket"
    /\ Len(p_definition.tests) = 2
    /\ Len(MatrixEntries(p_provider, p_definition)) = 3
    /\ Len(p_sent) = 1

\* The latest dispatch ended on an answer whose status is not the one the
\* backend answers an accepted trigger with.
DispatchRefused ==
    DispatchEnded /\ p_response[1].status # AcceptedStatus(p_provider)

\* The error a failed call raised embeds the status and body of the answer.
EmbedsResponse(e, response) ==
    /\ Len(Str(e)) = 3
    /\ Str(e)[2] = response.status
    /\ Str(e)[3] = response.text

PollRefused == PollEnded /\ p_response[1].status # OK

GitHubPollReturned ==
    PollEnded /\ p_provider = "github-actions" /\ Outcome.kind = "return"

\* The canonical status of a conclusion, as the specification lists it.
CanonicalOfConclusion(conclusion) ==
    CASE conclusion = Some("success") -> "success"
      [] conclusion = Some("failure") -> "failure"
      [] conclusion = Some("timed_out") -> "timeout"
      [] conclusion = Some("neutral") -> "success"
      [] conclusion \in {Some("cancelled"), Some("action_required"),
                         Some("skipped"), Some("stale"), None} -> "error"

\* C14: GitHub poll_status returns the sentinel when no run matches the
\* dispatch id or the matched run is queued or in_progress; for a completed
\* run it returns exactly one TestResult whose status is the conclusion's
\* canonical status.
C14_GitHubPollMapping ==
    GitHubPollReturned =>
        IF p_found = None THEN Outcome.value = None
        ELSE IF p_found[1].status \in {"queued", "in_progress"}
        THEN Outcome.value = None
        ELSE /\ p_found[1].status = "completed"
             /\ Outcome.value # None
             /\ Len(Outcome.value[1]) = 1
             /\ Outcome.value[1][1].status
                    = CanonicalOfConclusion(p_found[1].conclusion)

C14_Witness ==
    /\ GitHubPollReturned
    /\ p_found # None
    /\ p_found[1].status = "completed"
    /\ p_found[1].conclusion = Some("neutral")
    /\ Outcome.value[1][1].status = "success"

GitHubDispatchStarted == DispatchStarted /\ p_provider = "github-actions"

\* The dispatch_id input of the workflow-dispatch request of the call.
SentDispatchId == p_sent[1].json[1].inputs.dispatch_id

\* The states returned before the call that is running or has just ended.
EarlierStates ==
    IF DispatchEnded /\ Outcome.kind = "return"
    THEN SubSeq(p_states, 1, Len(p_states) - 1)
    ELSE p_states

\* C15: under "random" the dispatch ids of a provider's dispatches differ
\* from one another; under "static" each is "static-dispatch-id"; in both
\* modes the id in the returned state is the one sent as the dispatch_id
\* input.
C15_DispatchIds ==
    p_provider = "github-actions" =>
        /\ p_mode = "random" =>
              /\ \A i, j \in 1..Len(p_states) :
                    i # j => p_states[i].dispatch_id # p_states[j].dispatch_id
              /\ DispatchStarted =>
                    \A i \in 1..Len(EarlierStates) :
                        EarlierStates[i].dispatch_id # SentDispatchId[1]
        /\ p_mode = "static" =>
              /\ \A i \in 1..Len(p_states) :
                    p_states[i].dispatch_id = "static-dispatch-id"
              /\ DispatchStarted => SentDispatchId = Some("static-dispatch-id")
        /\ (DispatchEnded /\ Outcome.kind = "return") =>
              Some(p_states[Len(p_states)].dispatch_id) = SentDispatchId

C15_Witness ==
    /\ GitHubDispatchStarted
    /\ DispatchEnded
    /\ p_mode = "random"
    /\ Len(p_states) = 2
    /\ p_states[1].dispatch_id # p_states[2].dispatch_id
    /\ Some(p_states[2].dispatch_id) = SentDispatchId

GitHubPollStarted ==
    /\ p_provider = "github-actions"
    /\ p_pc = "polling" \/ PollEnded

\* A run of the listing carries the id of the polled dispatch in its title.
IsRunOf(run) == Contains(run.display_title, p_polled[1].dispatch_id)

PageHasMatch(runs) == \E i \in 1..Len(runs) : IsRunOf(runs[i])

\* C16: find_workflow_run asks for pages 1, 2, 3, ... of 100 runs in order;
\* it asks for a further page only after a page of 100 runs without a match;
\* it returns the first matching run of the first page that has one, and
\* none after a page of fewer than 100 runs without a match.
C16_Pagination ==
    GitHubPollStarted =>
        /\ \A k \in 1..Len(p_sent) :
              /\ p_sent[k].method = "GET"
              /\ p_sent[k].params[1].per_page = "100"
              /\ p_sent[k].params[1].page = StrInt(k)
        /\ Len(p_pages) <= Len(p_sent)
        /\ \A k \in 1..Len(p_pages) :
              k < Len(p_sent) =>
                  Len(p_pages[k]) = 100 /\ ~PageHasMatch(p_pages[k])
        /\ GitHubPollReturned =>
              /\ Len(p_sent) = Len(p_pages)
              /\ LET last == p_pages[Len(p_pages)]
                 IN IF PageHasMatch(last)
                    THEN \E i \in 1..Len(last) :
                            /\ IsRunOf(last[i])
                            /\ \A j \in 1..(i - 1) : ~IsRunOf(last[j])
                            /\ p_found = Some(last[i])
                    ELSE p_found = None /\ Len(last) < 100

C16_Witness ==
    /\ GitHubPollReturned
    /\ Len(p_pages) = 2
    /\ Len(p_pages[1]) = 100
    /\ Len(p_sent) = 2
    /\ Len(p_pages[2]) = 3
    /\ IsRunOf(p_pages[2][2]) /\ IsRunOf(p_pages[2][3])
    /\ p_found = Some(p_pages[2][2])
    /\ p_found # Some(p_pages[2][3])

GitHubDispatchEnded == DispatchEnded /\ p_provider = "github-actions"

\* C17 as stated: the GitHub dispatch returns a state on a 202 and on a 204
\* answer, and fails on every other status.
C17_Accepts202And204 ==
    GitHubDispatchEnded =>
        (Outcome.kind = "return" <=> p_response[1].status \in {202, 204})

\* C17: the GitHub dispatch returns a dispatch state on a 204 answer only;
\* every other status, 202 among them, fails the dispatch with a
\* RuntimeError.
C17_Only204Accepted ==
    GitHubDispatchEnded =>
        /\ Outcome.kind = "return" <=> p_response[1].status = 204
        /\ p_response[1].status # 204 =>
              /\ Outcome.kind = "exception"
              /\ Outcome.value.cls = "RuntimeError"

C17_Witness ==
    /\ GitHubDispatchEnded
    /\ p_response[1].status = 202
    /\ Outcome.kind = "exception"
    /\ p_states = <<>>

\* The latest poll ended after a 200 answer whose data passed validation.
PollAnswered == PollEnded /\ Outcome.kind = "return"

\* The data of the answer the latest poll worked on.
PolledData == p_response[1].json[1]

\* C18: GitLab poll_status returns the sentinel for the statuses created,
\* waiting_for_resource, preparing, pending, running and scheduled, and one
\* TestResult for the terminal ones: success is success, failed is failure,
\* canceled, skipped and manual are error.
C18_GitLabPollMapping ==
    (PollAnswered /\ p_provider = "gitlab-ci") =>
        LET st == PolledData.status
        IN IF st \in {"created", "waiting_for_resource", "preparing",
                      "pending", "running", "scheduled"}
           THEN Outcome.value = None
           ELSE /\ st \in {"success", "failed", "canceled", "skipped", "manual"}
                /\ Outcome.value # None
                /\ Len(Outcome.value[1]) = 1
                /\ Outcome.value[1][1].status =
                      CASE st = "success" -> "success"
                        [] st = "failed" -> "failure"
                        [] OTHER -> "error"

C18_Witness ==
    /\ PollAnswered
    /\ p_provider = "gitlab-ci"
    /\ PolledData.status = "manual"
    /\ Len(Outcome.value[1]) = 1
    /\ Outcome.value[1][1].status = "error"

\* The words of a request's header values, and the credentials it carries:
\* those words and the token field of its body.
HeaderWords(req) ==
    UNION {Range(req.headers[h]) : h \in DOMAIN req.headers}

Credentials(req) ==
    HeaderWords(req)
        \cup (IF req.json # None /\ "token" \in DOMAIN req.json[1]
              THEN {req.json[1].token} ELSE {})

\* C19: the GitLab provider sends the trigger token in the body of the
\* dispatch request and nowhere else, and the API token as the Bearer
\* Authorization header of status requests and nowhere else.
C19_GitLabTokensSeparate ==
    p_provider = "gitlab-ci" =>
        \A k \in 1..Len(p_sent) :
            LET req == p_sent[k]
            IN IF req.method = "POST"
               THEN /\ req.json[1].token = GitLabConfig.trigger_token
                    /\ GitLabConfig.trigger_token \notin HeaderWords(req)
                    /\ GitLabConfig.api_token \notin Credentials(req)
               ELSE /\ req.method = "GET"
                    /\ req.headers.Authorization
                           = <<"Bearer", GitLabConfig.api_token>>
                    /\ req.json = None /\ req.params = None
                    /\ GitLabConfig.trigger_token \notin Credentials(req)

C19_Witness ==
    /\ p_provider = "gitlab-ci"
    /\ PollEnded
    /\ Len(p_sent) = 1
    /\ p_sent[1].method = "GET"
    /\ GitLabConfig.api_token \in Credentials(p_sent[1])
    /\ Len(p_states) = 1

\* C20: Bitbucket poll_status returns the sentinel for the states PENDING,
\* IN_PROGRESS and PAUSED, and one TestResult for COMPLETED, STOPPED, ERROR
\* and FAILED, whose status is success for the result SUCCESSFUL, failure for
\* FAILED, and error for ERROR, STOPPED and a missing result.
C20_BitbucketPollMapping ==
    (PollAnswered /\ p_provider = "bitbucket") =>
        LET state == PolledData.state
        IN IF state.name \in {"PENDING", "IN_PROGRESS", "PAUSED"}
           THEN Outcome.value = None
           ELSE /\ state.name \in {"COMPLETED", "STOPPED", "ERROR", "FAILED"}
                /\ Outcome.value # None
                /\ Len(Outcome.value[1]) = 1
                /\ Outcome.value[1][1].status =
                      IF state.result = None THEN "error"
                      ELSE CASE state.result[1].name = "SUCCESSFUL" -> "success"
                             [] state.result[1].name = "FAILED" -> "failure"
                             [] state.result[1].name \in {"ERROR", "STOPPED"}
                                    -> "error"

C20_Witness ==
    /\ PollAnswered
    /\ p_provider = "bitbucket"
    /\ PolledData.state.name = "COMPLETED"
    /\ PolledData.state.result = Some([name |-> "STOPPED"])
    /\ Len(Outcome.value[1]) = 1
    /\ Outcome.value[1][1].status = "error"

\* The latest poll was answered 200 with a Bitbucket pipeline in a terminal
\* state whose result carries a name outside the known four.
BitbucketUnknownResult ==
    /\ PollEnded
    /\ p_provider = "bitbucket"
    /\ p_response[1].status = OK
    /\ p_response[1].json[1].state.name
           \in {"COMPLETED", "STOPPED", "ERROR", "FAILED"}
    /\ p_response[1].json[1].state.result # None
    /\ p_response[1].json[1].state.result[1].name
           \notin {"SUCCESSFUL", "FAILED", "ERROR", "STOPPED"}

\* C21: a Bitbucket poll of a terminal pipeline whose result name is outside
\* the known set returns one TestResult with status error instead of failing.
C21_UnknownResultIsError ==
    BitbucketUnknownResult =>
        /\ Outcome.kind = "return"
        /\ Outcome.value # None
        /\ Len(Outcome.value[1]) = 1
        /\ Outcome.value[1][1].status = "error"

C23_AzurePollMapping ==
    (PollAnswered /\ p_provider = "azure-devops") =>
        LET run == PolledData
        IN IF run.state \in {"inProgress", "unknown"}
           THEN Outcome.value = None
           ELSE /\ run.state \in {"completed", "canceling"}
                /\ Outcome.value # None
                /\ Len(Outcome.value[1]) = 1
                /\ Outcome.value[1][1].status =
                      CASE run.result = Some("succeeded") -> "success"
                        [] run.result = Some("failed") -> "failure"
                        [] OTHER -> "error"
                /\ Outcome.value[1][1].run_url =
                      IF run.links # None /\ run.links[1].web # None
                      THEN Some(run.links[1].web[1].href) ELSE Some("")
                /\ run.finished_date = None => Outcome.value[1][1].duration = 0

C23_Witness ==
    /\ PollAnswered
    /\ p_provider = "azure-devops"
    /\ PolledData.state = "canceling"
    /\ PolledData.result = Some("unknown")
    /\ PolledData.finished_date = None
    /\ PolledData.links = Some([web |-> None])
    /\ Outcome.value[1][1].status = "error"
    /\ Outcome.value[1][1].run_url = Some("")
    /\ Outcome.value[1][1].duration = 0

\* The matrix a trigger request carries, taken out of its JSON text.
SentMatrix == MatrixParameter(p_provider, p_sent[1].json[1])[2]

\* The test names of the (test, scan_path) pairs of a definition in order,
\* a test without scan paths counting for one whole-repository pair.
RECURSIVE PairNames(_)
PairNames(tests) ==
    IF tests = <<>> THEN <<>>
    ELSE LET t == Head(tests)
             n == IF Len(t.scan_paths) = 0 THEN 1 ELSE Len(t.scan_paths)
         IN [i \in 1..n |-> t.name] \o PairNames(Tail(tests))

\* C24: on every provider the matrix of the dispatch payload has one entry
\* per (test, scan_path) pair in order, a test with no scan paths giving one
\* whole-repository entry, so its length is the sum of max(1, len(scan_paths)).
C24_MatrixHasEveryPair ==
    DispatchStarted =>
        /\ Len(SentMatrix) = Len(PairNames(p_definition.tests))
        /\ \A i \in 1..Len(SentMatrix) :
              SentMatrix[i].test_name = PairNames(p_definition.tests)[i]

\* C25: the MATRIX_TESTS parameter of an Azure DevOps dispatch is the JSON
\* array of the definition's matrix entries, one per (test, scan_path) in
\* order, each with test_name, test_type, source_url, source_ref, scan_path
\* and timeout.
C25_AzureMatrixEntries ==
    (DispatchStarted /\ p_provider = "azure-devops") =>
        LET entries == ToMatrixEntries(p_definition.tests)
        IN /\ p_sent[1].json[1].templateParameters.MATRIX_TESTS[1] = "json"
           /\ Len(SentMatrix) = Len(entries)
           /\ \A i \in 1..Len(SentMatrix) :
                 /\ DOMAIN SentMatrix[i] =
                       {"test_name", "test_type", "source_url", "source_ref",
                        "scan_path", "timeout"}
                 /\ SentMatrix[i] = entries[i]

\* The (test, scan_path) pairs of a definition in order, each as the position
\* of its test and the path, None standing for the whole repository.
RECURSIVE Pairs(_, _)
Pairs(tests, k) ==
    IF k > Len(tests) THEN <<>>
    ELSE LET paths == tests[k].scan_paths
         IN (IF Len(paths) = 0 THEN <<<<k, None>>>>
             ELSE [i \in 1..Len(paths) |-> <<k, Some(paths[i])>>])
                \o Pairs(tests, k + 1)

\* A dispatch that serializes the definition's to_matrix_entries().
EntriesDispatched ==
    DispatchStarted /\ p_provider \in {"gitlab-ci", "bitbucket"}

\* C26: to_matrix_entries returns one entry per (test, scan_path) pair,
\* ordered by test and then by path, a test without scan paths giving one
\* entry with scan_path null; each entry keeps its test's name, type, source
\* url, source ref and timeout.
C26_ToMatrixEntries ==
    EntriesDispatched =>
        LET tests == p_definition.tests
            pairs == Pairs(tests, 1)
        IN /\ Len(SentMatrix) = Len(pairs)
           /\ \A i \in 1..Len(SentMatrix) :
                 LET t == tests[pairs[i][1]]
                     e == SentMatrix[i]
                 IN /\ e.test_name = t.name
                    /\ e.test_type = t.type
                    /\ e.source_url = t.source.url
                    /\ e.source_ref = t.source.ref
                    /\ e.timeout = t.timeout
                    /\ e.scan_path = pairs[i][2]

C26_Witness ==
    /\ EntriesDispatched
    /\ Len(p_definition.tests) = 2
    /\ p_definition.tests[1].scan_paths = <<>>
    /\ Len(p_definition.tests[2].scan_paths) = 2
    /\ Len(SentMatrix) = 3
    /\ SentMatrix[1].scan_path = None
    /\ SentMatrix[3].scan_path = Some("lib")
    /\ SentMatrix[3].test_type = "container-image"

\* C27: every TestResult a poll returns has a duration of at least 0, for
\* every pair of creation and end timestamps the backend reports.
C27_DurationNonNegative ==
    (PollAnswered /\ Outcome.value # None) =>
        \A i \in 1..Len(Outcome.value[1]) : Outcome.value[1][i].duration >= 0

\* ------------------------------------------------------------------------
\* The command line: cli.py run()
\* ------------------------------------------------------------------------
\* json.dumps(value, indent=indent): the same document, laid out over lines.
JsonDumpsIndent(value, indent) == <<"json", value, indent>>

\* json.loads of a printed document.
JsonLoads(text) == text[2]

\* Provider keys run() may be started with; one has no entry point.
ProviderKeys == Providers \cup {"jenkins"}

\* providers/loading.py load_provider_manifest: the manifest, or the error raised.
LoadProviderManifest(key) ==
    IF key \in Providers
    THEN P_Returned(key)
    ELSE Raised(Exc("ProviderNotFoundError", <<"Provider '", key, "' not found">>))

\* scanner_detector.py get_scanners_to_test returns scanner ids sorted and
\* without repeats: the ids at increasing positions of the pool.
ChangedScanners ==
    {c \in Mappings : \A i, j \in 1..Len(c) :
        i < j => \E a, b \in 1..MaxScanners :
                    a < b /\ c[i] = ScannerIdPool[a] /\ c[j] = ScannerIdPool[b]}

\* The provider_config_json texts run() may be handed: a configuration of
\* the provider, text that is not JSON, JSON without the required token.
ConfigTexts == {"config", "not-json", "no-token"}

\* json.loads and config_cls(**config_dict): the configuration, or the error
\* raised.
LoadConfig(text) ==
    CASE text = "not-json" -> Raised(Exc("JSONDecodeError", <<"Expecting value">>))
      [] text = "no-token" -> Raised(Exc("ValidationError", <<"token", "Field required">>))
      [] OTHER -> P_Returned(GitHubConfig)

\* scanner_detector.py resolve_ref, get_changed_files: the errors of git.
DetectionFailures ==
    {Raised(Exc("RuntimeError", <<"Cannot resolve git ref">>)),
     Raised(Exc("RuntimeError", <<"Git diff failed">>))}

\* What one load_test_definition call may give load_test_definitions: the
\* definition, the FileNotFoundError raised for a scanner without tests.yaml,
\* or the ValueError raised for a tests.yaml that cannot be used.
LoadOutcomes ==
    {P_Returned([version |-> "1.0", tests |-> <<>>]),
     Raised(Exc("FileNotFoundError", <<"tests.yaml">>)),
     Raised(Exc("ValueError", <<"Invalid YAML">>))}

\* aiohttp.ClientSession(base_url=config.api_base_url, ...): the session, or
\* the error raised for a base URL that cannot be one.
SessionOutcomes ==
    {P_Returned("session"), Raised(Exc("ValueError", <<"base_url">>))}

\* Test results the orchestrator may hand back, one of each status.
ResultPool ==
    {TestResult("success", 10, None, Some("https://example.com/1")),
     TestResult("failure", 12, None, Some("https://example.com/2")),
     TestResult("error", 0, Some(<<"API Error">>), None),
     TestResult("timeout", 30, Some(<<"timed out">>), None)}

\* orchestrator.py run_tests over the loaded definitions: one ScannerResult per
\* scanner in mapping order, under the scanner's id with the provider's
\* results, or under "unknown" with one error result when its task raised.
ScannerOutcomes(scanner_id) ==
    {ScannerResult(scanner_id, rs) : rs \in SeqsUpTo(ResultPool, MaxTests)}
        \cup {ScannerResult("unknown", <<TestResult("error", 0, Some(<<"API Error">>), None)>>)}

\* cli.py format_output: the entry of one TestResult.
OutputEntry(scanner_id, test_result) ==
    [scanner |-> scanner_id, status |-> test_result.status,
     duration |-> test_result.duration, message |-> test_result.message,
     run_url |-> test_result.run_url]

\* cli.py format_output: all_results, the two nested loops.
RECURSIVE AllResults(_)
AllResults(scanner_results) ==
    IF scanner_results = <<>> THEN <<>>
    ELSE [i \in 1..Len(Head(scanner_results).results) |->
              OutputEntry(Head(scanner_results).scanner_id,
                          Head(scanner_results).results[i])]
         \o AllResults(Tail(scanner_results))

\* sum(1 for r in all_results if r["status"] == status)
CountStatus(all_results, status) ==
    Cardinality({i \in 1..Len(all_results) : all_results[i].status = status})

\* Variant: an error is counted as a failed test too.
FormatOutput_failedWithErrors(scanner_results) ==
    [total |-> Len(AllResults(scanner_results)),
     passed |-> CountStatus(AllResults(scanner_results), "success"),
     failed |-> CountStatus(AllResults(scanner_results), "failure")
                    + CountStatus(AllResults(scanner_results), "error"),
     errors |-> CountStatus(AllResults(scanner_results), "error"),
     timeouts |-> CountStatus(AllResults(scanner_results), "timeout"),
     results |-> AllResults(scanner_results)]

\* cli.py format_output
FormatOutput(scanner_results) ==
    [total |-> Len(AllResults(scanner_results)),
     passed |-> CountStatus(AllResults(scanner_results), "success"),
     failed |-> CountStatus(AllResults(scanner_results), "failure"),
     errors |-> CountStatus(AllResults(scanner_results), "error"),
     timeouts |-> CountStatus(AllResults(scanner_results), "timeout"),
     results |-> AllResults(scanner_results)]

\* Variant: a timeout is not taken for a failure.
HasFailures_noTimeout(scanner_results) ==
    \E i \in 1..Len(scanner_results) :
        \E j \in 1..Len(scanner_results[i].results) :
            scanner_results[i].results[j].status \in {"failure", "error"}

\* cli.py run: has_failures
HasFailures(scanner_results) ==
    \E i \in 1..Len(scanner_results) :
        \E j \in 1..Len(scanner_results[i].results) :
            scanner_results[i].results[j].status \in {"failure", "error", "timeout"}

\* What run_tests may return for the given definitions with up to room test
\* results in all.
RECURSIVE ScannerResultSeqs(_, _)
ScannerResultSeqs(definitions, room) ==
    IF definitions = <<>> THEN {<<>>}
    ELSE UNION {{<<first>> \o rest :
                    rest \in ScannerResultSeqs(Tail(definitions), room - Len(first.results))} :
                first \in {o \in ScannerOutcomes(Head(definitions)) : Len(o.results) <= room}}

RunTestsResults(definitions) == ScannerResultSeqs(definitions, MaxResults)

\* The report of the two early returns of run().
EmptyReport == [total |-> 0, results |-> <<>>]

ReturnEmpty_throughProvider ==
    /\ c_printed' = Append(c_printed, JsonDumps(EmptyReport))
    /\ c_exit' = Some(0)
    /\ c_pc' = "returned"
    /\ c_session' = "closed"
    /\ UNCHANGED <<c_task, c_requests_on>>

\* run() prints the empty report and returns 0, the provider factory not
\* called.
ReturnEmpty ==
    /\ c_printed' = Append(c_printed, JsonDumps(EmptyReport))
    /\ c_exit' = Some(0)
    /\ c_pc' = "returned"
    /\ UNCHANGED <<c_session, c_task, c_requests_on>>

\* An exception raised by a call of run() leaves run(): nothing is printed
\* and no exit code is returned.
Propagate(e) ==
    /\ c_failed' = Some(e)
    /\ c_raised' = Some(e)
    /\ c_pc' = "raised"
    /\ UNCHANGED <<c_printed, c_exit>>

\* run() up to its first await: the provider lookup and its configuration.
Cli_Run(provider_key, config_text) ==
    /\ c_pc = "start"
    /\ IF LoadProviderManifest(provider_key).kind # "return"
       THEN Propagate(LoadProviderManifest(provider_key).value)
       ELSE IF LoadConfig(config_text).kind # "return"
       THEN Propagate(LoadConfig(config_text).value)
       ELSE /\ c_pc' = "detecting"
            /\ UNCHANGED <<c_raised, c_failed, c_printed, c_exit>>
    /\ UNCHANGED <<c_changed, c_loaded, c_definitions, c_scanner_results,
                   c_session, c_task, c_requests_on>>
    /\ UNCHANGED orchVars
    /\ UNCHANGED provVars
    /\ UNCHANGED ghVars

\* get_scanners_to_test ends: its error leaves run(); run() returns at once
\* when nothing changed, and starts loading definitions otherwise.
Cli_Detected(detected) ==
    /\ c_pc = "detecting"
    /\ IF detected.kind # "return"
       THEN /\ Propagate(detected.value)
            /\ UNCHANGED <<c_changed, c_session, c_task, c_requests_on>>
       ELSE /\ c_changed' = detected.value
            /\ UNCHANGED <<c_raised, c_failed>>
            /\ IF detected.value = <<>>
               THEN ReturnEmpty
               ELSE /\ c_pc' = "loading"
                    /\ UNCHANGED <<c_printed, c_exit, c_session, c_task,
                                   c_requests_on>>
    /\ UNCHANGED <<c_loaded, c_definitions, c_scanner_results>>
    /\ UNCHANGED orchVars
    /\ UNCHANGED provVars
    /\ UNCHANGED ghVars

\* load_test_definitions after the load of one scanner: a definition is kept
\* under the scanner's id, a FileNotFoundError is passed over.
Definitions(loaded) ==
    IF loaded.kind = "return"
    THEN Append(c_definitions, c_changed[c_loaded + 1])
    ELSE c_definitions

Caught_anyError(loaded) == loaded.kind # "return"

\* except FileNotFoundError: the one error load_test_definitions catches.
Caught(loaded) ==
    loaded.kind # "return" /\ loaded.value.cls = "FileNotFoundError"

\* One load_test_definition call ends: an error other than FileNotFoundError
\* leaves run(); after the last call run() returns when nothing loaded, and
\* goes on to enter the provider otherwise.
Cli_Loaded(loaded) ==
    /\ c_pc = "loading"
    /\ c_loaded < Len(c_changed)
    /\ IF loaded.kind # "return" /\ ~Caught(loaded)
       THEN /\ Propagate(loaded.value)
            /\ UNCHANGED <<c_loaded, c_definitions, c_session, c_task,
                           c_requests_on>>
       ELSE /\ c_loaded' = c_loaded + 1
            /\ c_definitions' = Definitions(loaded)
            /\ c_failed' = IF Caught(loaded) THEN Some(loaded.value) ELSE c_failed
            /\ UNCHANGED c_raised
            /\ IF c_loaded + 1 < Len(c_changed)
               THEN UNCHANGED <<c_pc, c_printed, c_exit, c_session, c_task,
                                c_requests_on>>
               ELSE IF Definitions(loaded) = <<>>
                    THEN ReturnEmpty
                    ELSE /\ c_pc' = "entering"
                         /\ UNCHANGED <<c_printed, c_exit, c_session, c_task,
                                        c_requests_on>>
    /\ UNCHANGED <<c_changed, c_scanner_results>>
    /\ UNCHANGED orchVars
    /\ UNCHANGED provVars
    /\ UNCHANGED ghVars

\* async with manifest.provider_factory(config): from_config opens the
\* session and yields the provider built on it, and run_tests is called; an
\* error of the session's construction leaves run().
Cli_Enter(entered) ==
    /\ c_pc = "entering"
    /\ IF entered.kind # "return"
       THEN /\ Propagate(entered.value)
            /\ UNCHANGED c_session
       ELSE /\ c_session' = "open"
            /\ c_pc' = "running"
            /\ UNCHANGED <<c_raised, c_failed, c_printed, c_exit>>
    /\ UNCHANGED <<c_changed, c_loaded, c_definitions, c_scanner_results,
                   c_task, c_requests_on>>
    /\ UNCHANGED orchVars
    /\ UNCHANGED provVars
    /\ UNCHANGED ghVars

\* The steps of a scanner's task: to its dispatch request, from there to its
\* first status request or to failure, from polling to results or failure.
TaskSteps ==
    {<<"pending", "dispatching">>, <<"dispatching", "polling">>,
     <<"dispatching", "failed">>, <<"polling", "completed">>,
     <<"polling", "failed">>}

\* The task of scanner s under run_tests takes a step; a step to dispatching
\* or polling issues a request on the provider's session.
Cli_Task(s, next) ==
    /\ c_pc = "running"
    /\ s \in Range(c_definitions)
    /\ <<c_task[s], next>> \in TaskSteps
    /\ c_task' = [c_task EXCEPT ![s] = next]
    /\ c_requests_on' = IF next \in {"dispatching", "polling"}
                        THEN c_requests_on \cup {c_session}
                        ELSE c_requests_on
    /\ UNCHANGED <<c_pc, c_changed, c_loaded, c_definitions, c_scanner_results,
                   c_printed, c_exit, c_raised, c_failed, c_session>>
    /\ UNCHANGED orchVars
    /\ UNCHANGED provVars
    /\ UNCHANGED ghVars

\* gather has every task's outcome.
TasksEnded ==
    \A s \in Range(c_definitions) : c_task[s] \in {"completed", "failed"}

\* _process_results: a task that raised is reported under "unknown", a task
\* that returned results under its scanner's id.
ResultsOfTasks(scanner_results) ==
    \A i \in 1..Len(c_definitions) :
        (c_task[c_definitions[i]] = "failed")
            <=> (scanner_results[i].scanner_id = "unknown")

Cli_TestsRun_sessionLeftOpen(scanner_results) ==
    /\ c_pc = "running"
    /\ TasksEnded
    /\ ResultsOfTasks(scanner_results)
    /\ c_scanner_results' = scanner_results
    /\ c_printed' = Append(c_printed, JsonDumpsIndent(FormatOutput(scanner_results), 2))
    /\ c_exit' = Some(IF HasFailures(scanner_results) THEN 1 ELSE 0)
    /\ c_pc' = "returned"
    /\ UNCHANGED <<c_changed, c_loaded, c_definitions, c_raised, c_failed,
                   c_session, c_task, c_requests_on>>
    /\ UNCHANGED orchVars
    /\ UNCHANGED provVars
    /\ UNCHANGED ghVars

\* run_tests returns once every task has ended: the async with block is left
\* and the session closed, then run() prints the report and returns the
\* exit code.
Cli_TestsRun(scanner_results) ==
    /\ c_pc = "running"
    /\ TasksEnded
    /\ ResultsOfTasks(scanner_results)
    /\ c_session' = "closed"
    /\ c_scanner_results' = scanner_results
    /\ c_printed' = Append(c_printed, JsonDumpsIndent(FormatOutput(scanner_results), 2))
    /\ c_exit' = Some(IF HasFailures(scanner_results) THEN 1 ELSE 0)
    /\ c_pc' = "returned"
    /\ UNCHANGED <<c_changed, c_loaded, c_definitions, c_raised, c_failed,
                   c_task, c_requests_on>>
    /\ UNCHANGED orchVars
    /\ UNCHANGED provVars
    /\ UNCHANGED ghVars

\* run() is cancelled while it awaits run_tests: gather cancels the tasks
\* still running, CancelledError leaves the async with block, which closes
\* the session, and leaves run().
Cli_Cancelled ==
    /\ c_pc = "running"
    /\ c_task' = [s \in Scanners |->
                    IF s \in Range(c_definitions)
                          /\ c_task[s] \notin {"completed", "failed"}
                    THEN "cancelled" ELSE c_task[s]]
    /\ c_session' = "closed"
    /\ Propagate(Exc("CancelledError", <<>>))
    /\ UNCHANGED <<c_changed, c_loaded, c_definitions, c_scanner_results,
                   c_requests_on>>
    /\ UNCHANGED orchVars
    /\ UNCHANGED provVars
    /\ UNCHANGED ghVars

\* run() about to start, under an orchestrator and a provider yet to be used.
InitCli ==
    /\ c_pc = "start"
    /\ c_changed = <<>>
    /\ c_loaded = 0
    /\ c_definitions = <<>>
    /\ c_scanner_results = <<>>
    /\ c_printed = <<>>
    /\ c_exit = None
    /\ c_raised = None
    /\ c_failed = None
    /\ c_session = "none"
    /\ c_task = [s \in Scanners |-> "pending"]
    /\ c_requests_on = {}
    /\ p_provider = "github-actions"
    /\ p_mode = "random"
    /\ p_definition = [version |-> "1.0", tests |-> <<>>]
    /\ InitProviderCalls
    /\ InitGitHubIdle
    /\ test_definitions = <<>>
    /\ timeout = DefaultTimeout
    /\ poll_interval = DefaultPollInterval
    /\ InitTasks

NextCli ==
    \/ \E key \in ProviderKeys, text \in ConfigTexts : Cli_Run(key, text)
    \/ \E changed \in ChangedScanners : Cli_Detected(P_Returned(changed))
    \/ \E failure \in DetectionFailures : Cli_Detected(failure)
    \/ \E loaded \in LoadOutcomes : Cli_Loaded(loaded)
    \/ \E entered \in SessionOutcomes : Cli_Enter(entered)
    \/ \E s \in Scanners, next \in {"dispatching", "polling", "completed", "failed"} :
        Cli_Task(s, next)
    \/ /\ c_pc = "running"
       /\ TasksEnded
       /\ \E rs \in RunTestsResults(c_definitions) : Cli_TestsRun(rs)
    \/ Cli_Cancelled

SpecCli == InitCli /\ [][NextCli]_vars

\* ------------------------------------------------------------------------
\* Properties of the command line
\* ------------------------------------------------------------------------
\* run() has returned after run_tests did: no early return leaves
\* definitions loaded.
TestsRan == c_pc = "returned" /\ c_definitions # <<>>

\* The latest document printed, read back.
Report == JsonLoads(c_printed[Len(c_printed)])

\* The number of TestResults in the first n ScannerResults.
RECURSIVE ResultsIn(_, _)
ResultsIn(scanner_results, n) ==
    IF n = 0 THEN 0
    ELSE ResultsIn(scanner_results, n - 1) + Len(scanner_results[n].results)

\* The places <<i, j>> of the TestResults with the given statuses.
ResultsWith(scanner_results, statuses) ==
    {<<i, j>> \in (1..Len(scanner_results)) \X (1..MaxResults) :
        /\ j <= Len(scanner_results[i].results)
        /\ scanner_results[i].results[j].status \in statuses}

\* C28: the report of format_output has total equal to the number of
\* TestResults over all ScannerResults, passed, failed, errors and timeouts
\* equal to the numbers of results with status success, failure, error and
\* timeout, total equal to the sum of the four, and in results one entry per
\* TestResult, in input order, carrying its scanner id and its fields.
C28_FormatOutputCounts ==
    TestsRan =>
        /\ Report.total = ResultsIn(c_scanner_results, Len(c_scanner_results))
        /\ Report.passed = Cardinality(ResultsWith(c_scanner_results, {"success"}))
        /\ Report.failed = Cardinality(ResultsWith(c_scanner_results, {"failure"}))
        /\ Report.errors = Cardinality(ResultsWith(c_scanner_results, {"error"}))
        /\ Report.timeouts = Cardinality(ResultsWith(c_scanner_results, {"timeout"}))
        /\ Report.total = Report.passed + Report.failed + Report.errors + Report.timeouts
        /\ Len(Report.results) = Report.total
        /\ \A i \in 1..Len(c_scanner_results) :
              \A j \in 1..Len(c_scanner_results[i].results) :
                  Report.results[ResultsIn(c_scanner_results, i - 1) + j] =
                      [scanner |-> c_scanner_results[i].scanner_id,
                       status |-> c_scanner_results[i].results[j].status,
                       duration |-> c_scanner_results[i].results[j].duration,
                       message |-> c_scanner_results[i].results[j].message,
                       run_url |-> c_scanner_results[i].results[j].run_url]

\* Four results over two scanners, one of each status, were reported.
C28_Witness ==
    /\ TestsRan
    /\ Len(c_scanner_results) = 2
    /\ Report.total = 4
    /\ Report.passed = 1 /\ Report.failed = 1
    /\ Report.errors = 1 /\ Report.timeouts = 1
    /\ Report.results[1].scanner # Report.results[4].scanner

\* C29: the exit code run returns is 0 when no result has status failure,
\* error or timeout, and 1 otherwise.
C29_ExitCode ==
    c_pc = "returned" =>
        /\ c_exit \in {Some(0), Some(1)}
        /\ c_exit = Some(0) <=>
              ResultsWith(c_scanner_results, {"failure", "error", "timeout"}) = {}

\* run returned 1 for results whose only unsuccessful status is timeout.
C29_Witness ==
    /\ TestsRan
    /\ c_exit = Some(1)
    /\ ResultsWith(c_scanner_results, {"timeout"}) # {}
    /\ ResultsWith(c_scanner_results, {"failure", "error"}) = {}
    /\ ResultsWith(c_scanner_results, {"success"}) # {}

\* C30: every report run prints, the reports of runs without changed scanners
\* or without loaded definitions included, has the keys total, passed, failed,
\* errors, timeouts and results, with one results entry per test result.
C30_ReportHasAllKeys ==
    \A n \in 1..Len(c_printed) :
        /\ DOMAIN JsonLoads(c_printed[n]) =
              {"total", "passed", "failed", "errors", "timeouts", "results"}
        /\ Len(JsonLoads(c_printed[n]).results) =
              ResultsIn(c_scanner_results, Len(c_scanner_results))

\* ------------------------------------------------------------------------
\* The wait loop under other timeouts: base.py wait_for_completion
\* ------------------------------------------------------------------------
\* timeout and poll_interval as wait_for_completion may be given them: a
\* timeout of three intervals, one that is no multiple of the interval, none,
\* a negative one.
WaitSettings ==
    {[timeout |-> 3 * DefaultPollInterval, poll_interval |-> DefaultPollInterval],
     [timeout |-> 45, poll_interval |-> DefaultPollInterval],
     [timeout |-> 0, poll_interval |-> DefaultPollInterval],
     [timeout |-> -DefaultPollInterval, poll_interval |-> DefaultPollInterval]}

\* What poll_status may return to the wait loop: the sentinel, or results of
\* a terminal state, one of them the backend's own timeout.
WaitPollValues ==
    PollReturnValues
        \cup {Some(<<TestResult("timeout", 60, None, Some("https://example.com"))>>)}

\* The loop time up to which the clock is followed unconditionally.
WaitHorizon == (IF timeout > 0 THEN timeout ELSE 0) + MaxOverrun * poll_interval

\* The event loop clock advances by one poll interval while a task is
\* suspended; a task asleep always sees its sleep end.
Elapse ==
    /\ rt_pc = "gather"
    /\ ~AllTasksEnded
    /\ \/ now + poll_interval <= WaitHorizon
       \/ \E s \in Range(test_definitions) : pc[s] = "Sleeping" /\ now < wake[s]
    /\ now' = now + poll_interval
    /\ ticks' = ticks + 1
    /\ UNCHANGED <<test_definitions, timeout, poll_interval, rt_pc, final_results>>
    /\ UNCHANGED TaskVars
    /\ UNCHANGED provVars
    /\ UNCHANGED cliVars
    /\ UNCHANGED ghVars

\* run_tests over one scanner, wait_for_completion under any of the settings.
InitWait ==
    /\ test_definitions = <<ScannerIdPool[1]>>
    /\ \E w \in WaitSettings : timeout = w.timeout /\ poll_interval = w.poll_interval
    /\ InitTasks
    /\ p_provider = "github-actions"
    /\ p_mode = "random"
    /\ p_definition = [version |-> "1.0", tests |-> <<>>]
    /\ InitProviderCalls
    /\ InitCliIdle
    /\ InitGitHubIdle

NextWait ==
    \/ RunTests
    \/ \E s \in Scanners : TaskStart(s)
    \/ \E s \in Scanners : \E st \in IssuableStates(s) : DispatchReturn(s, st)
    \/ \E s \in Scanners, e \in DispatchExceptions : DispatchRaise(s, e)
    \/ \E s \in Scanners, r \in WaitPollValues : PollReturn(s, r)
    \/ \E s \in Scanners, e \in PollExceptions : PollRaise(s, e)
    \/ \E s \in Scanners : Wake(s)
    \/ Elapse
    \/ Gather

SpecWait == InitWait /\ [][NextWait]_vars

\* ------------------------------------------------------------------------
\* Properties of the wait loop
\* ------------------------------------------------------------------------
\* The places of final_results that hold a test result of status timeout.
TimeoutResults == ResultsWith(final_results, {"timeout"})

\* C35: a scanner whose wait ran past its deadline is reported by run_tests
\* under scanner id "unknown" with one result of status error, never of
\* status timeout; a result of status timeout, and so a timeout counted by the
\* report, is always one a poll returned for a state the backend ended.
C35_DeadlineReportedAsError ==
    rt_pc = "returned" =>
        \A i \in 1..Len(test_definitions) :
            LET s == test_definitions[i]
            IN /\ pc[s] = "TimedOut" =>
                    /\ final_results[i].scanner_id = "unknown"
                    /\ Len(final_results[i].results) = 1
                    /\ final_results[i].results[1].status = "error"
                    /\ FormatOutput(final_results).timeouts = 0
                    /\ FormatOutput(final_results).errors = 1
               /\ \A j \in 1..Len(final_results[i].results) :
                    final_results[i].results[j].status = "timeout" =>
                        /\ pc[s] = "Completed"
                        /\ last_poll[s] = Some(Some(final_results[i].results))
                        /\ FormatOutput(final_results).timeouts = Cardinality(TimeoutResults)

\* run_tests returned after its scanner's wait ran out of time after a sleep.
C35_Witness ==
    /\ rt_pc = "returned"
    /\ pc[test_definitions[1]] = "TimedOut"
    /\ sleeps[test_definitions[1]] > 0
    /\ final_results[1].results[1].status = "error"

\* The step in which a poll of s returns results.
ResultsReturned(s) ==
    /\ pc[s] = "Polling"
    /\ last_poll'[s] # None
    /\ last_poll'[s][1] # None

\* C36: wait_for_completion makes at least one poll, whatever the timeout, a
\* zero or negative one included; the deadline is tested only after a poll has
\* returned the sentinel, so results a poll returns are returned as the result
\* of the wait even when the deadline has passed by then.
C36_DeadlineCheckedAfterSentinel ==
    [][\A s \in Scanners :
          /\ (pc'[s] = "TimedOut" /\ pc[s] # "TimedOut") =>
                /\ pc[s] = "Polling"
                /\ poll_calls[s] >= 1
                /\ SentinelReturned(s)
                /\ now >= deadline[s]
          /\ ResultsReturned(s) =>
                /\ poll_calls[s] >= 1
                /\ pc'[s] = "Completed"
                /\ outcome'[s] = Some(Returned(ScannerResult(s, last_poll'[s][1][1])))]_vars

\* Under a negative timeout the first poll was made and its results returned.
C36_Witness ==
    \E s \in Inputs :
        /\ timeout < 0
        /\ pc[s] = "Completed"
        /\ poll_calls[s] = 1
        /\ last_poll[s] # Some(None)
        /\ now > timeout

\* The smallest integer not below a / b, for b > 0.
Ceil(a, b) == -((-a) \div b)

\* In every step so far of the wait of s the polls took no time and the sleeps
\* lasted exactly poll_interval: the loop time is the start of the wait plus
\* the sleeps made.
PollsTookNoTime(s) == now = wait_start[s] + sleeps[s] * poll_interval

\* The step in which the wait of s raises TimeoutError.
TimeoutRaised(s) == pc[s] # "TimedOut" /\ pc'[s] = "TimedOut"

\* C37 as stated: when every poll returns the sentinel and polls take no
\* time, wait_for_completion raises after exactly
\* ceil(timeout / poll_interval) + 1 polls; it never raises before the
\* deadline, and raises right after the first sentinel poll that returns at or
\* after the deadline, with no sleep in between.
C37_PollsBeforeTimeout ==
    [][\A s \in Scanners :
          TimeoutRaised(s) =>
              /\ now >= wait_start[s] + timeout
              /\ SentinelReturned(s)
              /\ sleeps'[s] = sleeps[s]
              /\ (PollsTookNoTime(s) /\ none_polls'[s] = poll_calls[s]) =>
                    poll_calls[s] = Ceil(timeout, poll_interval) + 1]_vars

\* C37 amended: the count holds for a timeout that is not negative; under a
\* negative timeout the one poll that is always made is the only one.
C37_PollsBeforeTimeoutAmended ==
    [][\A s \in Scanners :
          TimeoutRaised(s) =>
              /\ now >= wait_start[s] + timeout
              /\ SentinelReturned(s)
              /\ sleeps'[s] = sleeps[s]
              /\ (PollsTookNoTime(s) /\ none_polls'[s] = poll_calls[s]) =>
                    poll_calls[s] = IF timeout >= 0
                                      THEN Ceil(timeout, poll_interval) + 1
                                      ELSE 1]_vars

\* A wait of 45 seconds polled every 30 raised after three sentinel polls
\* that took no time.
C37_Witness ==
    \E s \in Inputs :
        /\ pc[s] = "TimedOut"
        /\ timeout = 45
        /\ poll_calls[s] = 3
        /\ none_polls[s] = 3
        /\ sleeps[s] = 2
        /\ now = 2 * poll_interval

\* ------------------------------------------------------------------------
\* Properties of run_tests under concurrency
\* ------------------------------------------------------------------------
\* C38: run_tests returns its ScannerResults in the iteration order of the
\* input mapping, whatever the order in which the tasks ended: entry i is the
\* result of the i-th scanner's task, or the "unknown" entry synthesized from
\* the exception that task raised, so an "unknown" entry's position names the
\* scanner that failed.
C38_ResultsInMappingOrder ==
    rt_pc = "returned" =>
        /\ Len(final_results) = Len(test_definitions)
        /\ \A i \in 1..Len(test_definitions) :
              LET s == test_definitions[i]
              IN IF outcome[s][1].kind = "ScannerResult"
                   THEN /\ final_results[i] = outcome[s][1].value
                        /\ final_results[i].scanner_id = s
                        /\ pc[s] = "Completed"
                 ELSE /\ final_results[i].scanner_id = "unknown"
                      /\ final_results[i].results[1].message = Some(Str(outcome[s][1].value))
                      /\ pc[s] \in Failed

\* The second scanner of the mapping failed first, the first one completed
\* later, and the "unknown" entry is the second.
C38_Witness ==
    /\ rt_pc = "returned"
    /\ Len(test_definitions) = 2
    /\ first_ended = Some(test_definitions[2])
    /\ pc[test_definitions[2]] \in Failed
    /\ pc[test_definitions[1]] = "Completed"
    /\ final_results[1].scanner_id = test_definitions[1]
    /\ final_results[2].scanner_id = "unknown"

\* ------------------------------------------------------------------------
\* Termination of run_tests
\* ------------------------------------------------------------------------
\* run_tests over two scanners, wait_for_completion under any of the settings.
InitLive ==
    /\ test_definitions = <<ScannerIdPool[1], ScannerIdPool[2]>>
    /\ \E w \in WaitSettings : timeout = w.timeout /\ poll_interval = w.poll_interval
    /\ InitTasks
    /\ p_provider = "github-actions"
    /\ p_mode = "random"
    /\ p_definition = [version |-> "1.0", tests |-> <<>>]
    /\ InitProviderCalls
    /\ InitCliIdle
    /\ InitGitHubIdle

\* A dispatch request of s returns a state or raises.
DispatchEnds(s) ==
    \/ \E st \in IssuableStates(s) : DispatchReturn(s, st)
    \/ \E e \in DispatchExceptions : DispatchRaise(s, e)

\* A poll request of s returns results or the sentinel, or raises.
PollEnds(s) ==
    \/ \E r \in WaitPollValues : PollReturn(s, r)
    \/ \E e \in PollExceptions : PollRaise(s, e)

NextLive ==
    \/ RunTests
    \/ \E s \in Scanners : TaskStart(s)
    \/ \E s \in Scanners : DispatchEnds(s)
    \/ \E s \in Scanners : PollEnds(s)
    \/ \E s \in Scanners : Wake(s)
    \/ Elapse
    \/ Gather

\* The event loop runs every task that is ready; every request a task awaits
\* returns in the end; the clock goes on.
Fairness ==
    /\ WF_vars(RunTests)
    /\ WF_vars(Gather)
    /\ WF_vars(Elapse)
    /\ \A s \in Scanners :
          /\ WF_vars(TaskStart(s))
          /\ WF_vars(DispatchEnds(s))
          /\ WF_vars(PollEnds(s))
          /\ WF_vars(Wake(s))

SpecLive == InitLive /\ [][NextLive]_vars /\ Fairness

\* C40: when every dispatch and poll request returns in the end and time
\* advances, every scanner's task reaches a terminal state and run_tests
\* returns; and run_tests has returned only when every scanner's task is in a
\* terminal state.
C40_RunTestsTerminates ==
    /\ \A s \in {ScannerIdPool[1], ScannerIdPool[2]} : <>(pc[s] \in Terminal)
    /\ <>(rt_pc = "returned")
    /\ [](rt_pc = "returned" => \A s \in Inputs : pc[s] \in Terminal)

\* run_tests returned after one scanner slept through its whole timeout and
\* the other completed.
C40_Witness ==
    /\ rt_pc = "returned"
    /\ \E s, t \in Inputs :
          /\ pc[s] = "TimedOut" /\ sleeps[s] >= 2
          /\ pc[t] = "Completed"

\* ------------------------------------------------------------------------
\* Properties of the dispatch answer
\* ------------------------------------------------------------------------
\* The answer to the dispatch has the accepted status and data whose id, if
\* there is one, is no JSON integer.
AcceptedWithoutIntegerId ==
    /\ p_provider \in {"gitlab-ci", "azure-devops"}
    /\ DispatchEnded
    /\ p_response[1].status = AcceptedStatus(p_provider)
    /\ Get(p_response[1].json[1], "id", <<"none">>)[1] # "int"

\* C33: for GitLab CI and Azure DevOps a dispatch answered with the accepted
\* status but with no integer id raises an error and yields no dispatch
\* state, so there is nothing the scanner could be polled with.
C33_NoStateWithoutIntegerId ==
    AcceptedWithoutIntegerId =>
        /\ Outcome.kind = "exception"
        /\ Outcome.value.cls = "RuntimeError"

\* ------------------------------------------------------------------------
\* Concurrent scanner tasks on one GitHub Actions provider
\* ------------------------------------------------------------------------
\* The titles the dispatched workflow may give the run of scanner s: the
\* word of its own dispatch id, alone or next to the id of another dispatch.
RunTitles(s) ==
    {TitleOf(g_state[s][1].dispatch_id)}
        \cup {TitleOf(g_state[s][1].dispatch_id) \o <<g_state[t][1].dispatch_id>> :
                t \in {u \in Scanners \ {s} : g_state[u] # None}}

\* The answers to GET actions/runs?created=>=dispatch_time: the runs created
\* at or after that second, newest first or oldest first.
Listings(dispatch_time) ==
    LET kept == SelectSeq(g_runs, LAMBDA r : r.created_at >= dispatch_time)
    IN {kept, [i \in 1..Len(kept) |-> kept[Len(kept) + 1 - i]]}

\* dispatch_scanner_tests of scanner s up to its POST; the clock may pass a
\* second boundary before the next call reads it.
G_Dispatch(s) ==
    /\ g_pc[s] = "idle"
    /\ g_state' = [g_state EXCEPT ![s] =
                      Some(GitHubDispatchState(DispatchId(p_mode, p_uuids), p_utc))]
    /\ p_uuids' = IF p_mode # "static" THEN p_uuids + 1 ELSE p_uuids
    /\ p_utc' \in {p_utc, p_utc + 1}
    /\ g_pc' = [g_pc EXCEPT ![s] = "dispatching"]
    /\ UNCHANGED <<g_runs, g_created_by, g_matched>>
    /\ UNCHANGED <<p_provider, p_mode, p_definition, p_pc, p_sent, p_response,
                   p_states, p_pending, p_polled, p_page, p_result, p_found,
                   p_pages, p_calls>>
    /\ UNCHANGED orchVars
    /\ UNCHANGED cliVars

\* The answer to the POST of scanner s: on 204 the backend has queued a run
\* and the call returns the prepared state; otherwise the call raises.
G_DispatchResponse(s, status, title) ==
    /\ g_pc[s] = "dispatching"
    /\ IF DispatchAccepted("github-actions", status)
       THEN /\ g_runs' = Append(g_runs,
                    [WorkflowRun(Len(g_runs) + 1, "queued", None, title)
                        EXCEPT !.created_at = p_utc,
                               !.updated_at = p_utc])
            /\ g_created_by' = Append(g_created_by, s)
            /\ g_pc' = [g_pc EXCEPT ![s] = "dispatched"]
       ELSE /\ g_pc' = [g_pc EXCEPT ![s] = "failed"]
            /\ UNCHANGED <<g_runs, g_created_by>>
    /\ UNCHANGED <<g_state, g_matched>>
    /\ UNCHANGED orchVars
    /\ UNCHANGED provVars
    /\ UNCHANGED cliVars

\* The backend completes run i with a conclusion.
G_Progress(i, conclusion) ==
    /\ i \in 1..Len(g_runs)
    /\ g_runs[i].status # "completed"
    /\ g_runs' = [g_runs EXCEPT ![i].status = "completed",
                                ![i].conclusion = conclusion,
                                ![i].updated_at = @ + 7]
    /\ UNCHANGED <<g_pc, g_state, g_created_by, g_matched>>
    /\ UNCHANGED orchVars
    /\ UNCHANGED provVars
    /\ UNCHANGED cliVars

\* poll_status of scanner s up to the GET of find_workflow_run.
G_Poll(s) ==
    /\ g_pc[s] = "dispatched"
    /\ g_pc' = [g_pc EXCEPT ![s] = "polling"]
    /\ UNCHANGED <<g_state, g_runs, g_created_by, g_matched>>
    /\ UNCHANGED orchVars
    /\ UNCHANGED provVars
    /\ UNCHANGED cliVars

\* poll_status of scanner s from the answer to its end: an error raises,
\* otherwise the first listed run whose title holds the dispatch id is the
\* match; a completed match ends the task with its result, anything else has
\* the task poll again.
G_PollResponse(s, status, runs) ==
    /\ g_pc[s] = "polling"
    /\ IF status # OK
       THEN /\ g_pc' = [g_pc EXCEPT ![s] = "failed"]
            /\ UNCHANGED g_matched
       ELSE LET at == FirstMatch(runs, g_state[s][1].dispatch_id)
                found == IF at = 0 THEN None ELSE Some(runs[at])
            IN /\ g_matched' = [g_matched EXCEPT ![s] = found]
               /\ g_pc' = [g_pc EXCEPT ![s] =
                              IF GitHubPollResult(found) = None
                              THEN "dispatched" ELSE "done"]
    /\ UNCHANGED <<g_state, g_runs, g_created_by>>
    /\ UNCHANGED orchVars
    /\ UNCHANGED provVars
    /\ UNCHANGED cliVars

\* One GitHub Actions provider of either dispatch id mode, under a run_tests
\* call that was handed two scanners, neither dispatched yet.
InitGitHub ==
    /\ p_provider = "github-actions"
    /\ p_mode \in DispatchIdModes
    /\ p_definition = [version |-> "1.0", tests |-> <<>>]
    /\ InitProviderCalls
    /\ InitCliIdle
    /\ InitGitHubIdle
    /\ test_definitions = <<ScannerIdPool[1], ScannerIdPool[2]>>
    /\ timeout = DefaultTimeout
    /\ poll_interval = DefaultPollInterval
    /\ InitTasks

NextGitHub ==
    \/ \E s \in Inputs : G_Dispatch(s)
    \/ \E s \in Inputs, st \in {NoContent, 500} :
        /\ g_pc[s] = "dispatching"
        /\ \E title \in RunTitles(s) : G_DispatchResponse(s, st, title)
    \/ \E i \in 1..Len(g_runs), c \in {Some("success"), Some("failure")} :
        G_Progress(i, c)
    \/ \E s \in Inputs : G_Poll(s)
    \/ \E s \in Inputs, st \in {OK, 500} :
        /\ g_pc[s] = "polling"
        /\ \E runs \in Listings(g_state[s][1].dispatch_time) :
            G_PollResponse(s, st, runs)

SpecGitHub == InitGitHub /\ [][NextGitHub]_vars

\* The scanners whose dispatch has prepared its id.
Dispatched == {s \in Scanners : g_state[s] # None}

\* Each run's title holds the id of the dispatch that created it and the id
\* of no other dispatch.
OwnIdOnly ==
    \A i \in 1..Len(g_runs) : \A t \in Dispatched :
        Contains(g_runs[i].display_title, g_state[t][1].dispatch_id)
            <=> t = g_created_by[i]

\* C39: provided each run's title holds the id of the dispatch that created
\* it and of no other dispatch, the run a scanner's poll_status matched is
\* the run its own dispatch created, and no two scanners have matched the
\* same run.
C39_PollMatchesOwnRun ==
    OwnIdOnly =>
        /\ \A s \in Scanners :
              g_matched[s] # None => g_created_by[g_matched[s][1].id] = s
        /\ \A s, t \in Scanners :
              (s # t /\ g_matched[s] # None /\ g_matched[t] # None)
                  => g_matched[s][1].id # g_matched[t][1].id

\* Two scanners were dispatched concurrently, each has reported its own
\* completed run, the other scanner's run listed first.
C39_Witness ==
    /\ OwnIdOnly
    /\ \A s \in {ScannerIdPool[1], ScannerIdPool[2]} :
          /\ g_pc[s] = "done"
          /\ g_matched[s] # None
          /\ g_created_by[g_matched[s][1].id] = s
    /\ g_state[ScannerIdPool[1]][1].dispatch_time
         = g_state[ScannerIdPool[2]][1].dispatch_time
    /\ g_matched[ScannerIdPool[1]][1].id # g_matched[ScannerIdPool[2]][1].id

\* ------------------------------------------------------------------------
\* Properties of run(): session, errors, early exits
\* ------------------------------------------------------------------------
\* The scanners whose dispatch request has been issued.
Dispatches == {s \in Scanners : c_task[s] # "pending"}

\* The scanners with a dispatch or a poll under way.
Requesting == {s \in Scanners : c_task[s] \in {"dispatching", "polling"}}

Left == c_pc \in {"returned", "raised"}

\* C31: the provider's session is open before the first dispatch request,
\* open while any scanner is dispatching or polling, closed only once
\* run_tests has returned or raised, closed whenever run() has left after
\* entering the provider, and every request was issued on an open session.
C31_SessionSpansRunTests ==
    /\ (Dispatches # {} => c_session # "none")
    /\ (Requesting # {} => c_session = "open")
    /\ (c_session = "closed" => Left /\ Requesting = {})
    /\ (Left => c_session # "open")
    /\ c_requests_on \subseteq {"open"}

\* run() has returned after both scanners' requests went out on the open
\* session, one task having failed, and the session is closed.
C31_Witness ==
    /\ c_pc = "returned"
    /\ c_session = "closed"
    /\ c_requests_on = {"open"}
    /\ c_task[ScannerIdPool[1]] = "failed"
    /\ c_task[ScannerIdPool[2]] = "completed"

\* A task's error stays inside run_tests: with a failed task run() may still
\* leave only by returning, or by its own cancellation, and returns 1 with
\* the failure reported under "unknown".
TaskErrorsContained ==
    (\E s \in Scanners : c_task[s] = "failed") =>
        /\ (c_raised # None => c_raised[1].cls = "CancelledError")
        /\ (c_pc = "returned" =>
                /\ c_exit = Some(1)
                /\ \E i \in 1..Len(c_scanner_results) :
                      c_scanner_results[i].scanner_id = "unknown")

\* C32 as stated: every failure of the lookup, the configuration, the
\* construction, the detection or the loading of a definition leaves run()
\* with no dispatch issued, and no task's error leaves run_tests.
C32_FailuresPropagate ==
    /\ ((c_failed # None /\ c_failed[1].cls # "CancelledError") =>
            /\ c_pc = "raised"
            /\ c_raised = c_failed
            /\ Dispatches = {}
            /\ c_requests_on = {})
    /\ TaskErrorsContained

\* C32, amended: the same of every such failure but the FileNotFoundError of
\* a definition's loading, which never leaves run().
C32_FailuresPropagateAmended ==
    /\ ((c_failed # None
            /\ c_failed[1].cls \notin {"CancelledError", "FileNotFoundError"}) =>
            /\ c_pc = "raised"
            /\ c_raised = c_failed
            /\ Dispatches = {}
            /\ c_requests_on = {})
    /\ (c_raised # None => c_raised[1].cls # "FileNotFoundError")
    /\ TaskErrorsContained

\* An unusable tests.yaml of the second scanner has left run() after the
\* first scanner's definition had loaded.
C32_Witness ==
    /\ c_pc = "raised"
    /\ c_raised = Some(Exc("ValueError", <<"Invalid YAML">>))
    /\ c_definitions = <<ScannerIdPool[1]>>
    /\ c_loaded = 1
    /\ c_exit = None

\* C34: once detection has returned no scanner, or no definition has loaded
\* for any changed scanner, run() has printed a report of total 0 and
\* returned 0, with no provider built, no session opened and no request
\* issued; run() goes on to load only with scanners and to the provider only
\* with definitions.
C34_EarlyExitsTouchNoProvider ==
    /\ ((c_pc = "returned" /\ (c_changed = <<>> \/ c_definitions = <<>>)) =>
            /\ Len(c_printed) = 1
            /\ JsonLoads(c_printed[1]).total = 0
            /\ c_exit = Some(0)
            /\ c_session = "none"
            /\ Dispatches = {}
            /\ c_requests_on = {})
    /\ (c_pc = "loading" => c_changed # <<>>)
    /\ (c_pc \in {"entering", "running"} => c_definitions # <<>>)
    /\ (c_session # "none" => c_definitions # <<>>)

\* Two scanners changed, neither has a tests.yaml: both were skipped and
\* run() has returned 0.
C34_Witness ==
    /\ c_pc = "returned"
    /\ Len(c_changed) = 2
    /\ c_loaded = 2
    /\ c_definitions = <<>>
    /\ c_failed = Some(Exc("FileNotFoundError", <<"tests.yaml">>))
    /\ c_exit = Some(0)
====
